---- MODULE Spec2Model ----
(***************************************************************************)
(* Bike cadence tracker firmware: session manager, whole-store             *)
(* persistence, BLE sync service (session id + synced flag protocol), the  *)
(* host-side sync client loop and the atomic file write.                   *)
(***************************************************************************)
EXTENDS Integers, Sequences, FiniteSets, TLC

(***************************************************************************)
(* Bounds of the model.                                                    *)
(***************************************************************************)
MaxTime == 900
MaxId == 2
MaxRevs == 2
MaxByte == 2
MaxStored == 3
MaxLen == 2

(***************************************************************************)
(* Program constants.                                                      *)
(***************************************************************************)
IDLE_TIMEOUT_MS == 10 * 60 * 1000
SAVE_INTERVAL_S == 5 * 60
session_min_duration_s == 5 * 60
IdleStartupDelayS == 10
IdleCheckIntervalS == 30

\* Granularity of the wall clock in the model: half a save interval.
TimeStep == SAVE_INTERVAL_S \div 2

VARIABLES
    now,                \* wall clock, seconds (int(time.time()))
    bootTime,           \* wall-clock second of the last boot (ticks_ms() origin)
    saveDue,            \* wall-clock second at which session_periodic_save wakes
    store,              \* SessionManager.store (in memory)
    current_session,    \* SessionManager.current_session
    disk,               \* the persisted session store file
    telemetry_state,    \* TelemetryState
    session_data_char,  \* value of the Session Data characteristic
    mark_synced_char,   \* value of the Mark Synced characteristic
    dataHandler,        \* position of _handle_session_data_writes
    markHandler,        \* position of _handle_mark_synced_writes
    lastOp,             \* the operation that ran last
    lastReq,            \* bytes of the last characteristic write
    repeated,           \* the last Session Data request repeated the one before
    saveResult,         \* what the last save_sessions call returned
    lastSaved,          \* the session the last save of a session was made for
    persistState,       \* per session id: outcome of the session writes so far
    ended_session,      \* what the last end_session call returned
    delivered,          \* ids of the sessions handed to a client so far
    client,             \* per sync client: the locals of sync_all_sessions
    files,              \* atomic_write: the files of the filesystem
    aw,                 \* atomic_write: the call in progress
    sessions_dir,       \* storage.py: the files of config.sessions_dir
    loaded,             \* storage.py: the call made and what it returned
    csc,                \* cadence service: calls made, measurement encoded
    tasks               \* per background task: where its loop is

timeVars == <<now, bootTime, saveDue>>
devVars == <<timeVars, store, current_session, disk, telemetry_state>>
bleVars == <<session_data_char, mark_synced_char, dataHandler, markHandler>>
reqVars == <<lastReq, repeated>>
saveVars == <<saveResult, lastSaved, persistState, ended_session>>
histVars == <<lastOp, reqVars, saveVars, delivered>>
awVars == <<files, aw>>
storageVars == <<sessions_dir, loaded>>
vars == <<devVars, bleVars, histVars, client, awVars, storageVars, csc, tasks>>

(***************************************************************************)
(* Data model (session.py).                                                *)
(***************************************************************************)
Session(id, start_time, end_time, revolutions, synced) ==
    [id |-> id, start_time |-> start_time, end_time |-> end_time,
     revolutions |-> revolutions, synced |-> synced]

\* Optional[Session] = None
NoSession == Session(-1, -1, -1, 0, FALSE)

SessionStore(sessions, next_id) == [sessions |-> sessions, next_id |-> next_id]

\* SessionStore() with its field defaults
EmptyStore == SessionStore(<<>>, 0)

Session_to_dict(s) ==
    [id |-> s.id, start_time |-> s.start_time, end_time |-> s.end_time,
     revolutions |-> s.revolutions, synced |-> s.synced]

Session_from_dict(d) ==
    Session(d.id, d.start_time, d.end_time, d.revolutions, d.synced)

SessionStore_to_dict(st) ==
    [present |-> TRUE,
     sessions |-> [i \in 1..Len(st.sessions) |-> Session_to_dict(st.sessions[i])],
     next_id |-> st.next_id]

SessionStore_from_dict(d) ==
    SessionStore([i \in 1..Len(d.sessions) |-> Session_from_dict(d.sessions[i])],
                 d.next_id)

\* no store file on the filesystem
NoFile == [present |-> FALSE, sessions |-> <<>>, next_id |-> 0]

(***************************************************************************)
(* Persistence of the whole store.                                         *)
(***************************************************************************)
\* save_sessions(store): the file holds the new store when the atomic write
\* succeeds and is left as it was when it fails.
save_sessions(st, ok) == IF ok THEN SessionStore_to_dict(st) ELSE disk

\* load_sessions(): the persisted store, or a fresh one when there is no file
load_sessions(d) == IF d.present THEN SessionStore_from_dict(d) ELSE EmptyStore

(***************************************************************************)
(* Clocks.                                                                 *)
(***************************************************************************)
ticks_ms == (now - bootTime) * 1000

ticks_diff(a, b) == a - b

(***************************************************************************)
(* Telemetry (main.py TelemetryState).                                     *)
(***************************************************************************)
TIME_UNIT_HZ == 1024

\* cumulative_revolutions is a 32-bit value, held as two 16-bit halves
\* <<high, low>> (value = high * 65536 + low).
TelemetryState(revs, evt, phys) ==
    [cumulative_revolutions |-> revs, last_event_time |-> evt,
     last_physical_time_ms |-> phys]

\* (x + 1) & 0xFFFFFFFF on the two halves
Inc32(x) ==
    IF x[2] + 1 < 65536 THEN <<x[1], x[2] + 1>>
    ELSE <<(x[1] + 1) % 65536, 0>>

\* Faulty variant of TimeInUnits: the quotient is rounded to the nearest
\* unit.
TimeInUnits_rounded(ms) ==
    (ms \div 1000) * TIME_UNIT_HZ
        + ((ms % 1000) * TIME_UNIT_HZ + 500) \div 1000

\* (ms * TIME_UNIT_HZ) // 1000, computed without leaving 32 bits
TimeInUnits(ms) ==
    (ms \div 1000) * TIME_UNIT_HZ + ((ms % 1000) * TIME_UNIT_HZ) \div 1000

Telemetry_record_revolution(t, current_time_ms) ==
    TelemetryState(Inc32(t.cumulative_revolutions),
                   TimeInUnits(current_time_ms) % 65536,
                   current_time_ms)

(***************************************************************************)
(* SessionManager (session_manager.py).                                    *)
(***************************************************************************)
has_active_session == current_session # NoSession

\* start_session(): the new session and the store with next_id advanced
start_session_session(st) == Session(st.next_id, now, now, 0, FALSE)

\* Faulty variant of start_session_store: next_id is not advanced.
start_session_store_keeping_next_id(st) == st

start_session_store(st) == SessionStore(st.sessions, st.next_id + 1)

\* Faulty variant of record_revolution_session: the revolution that starts a
\* session is not counted.
record_revolution_session_not_counting_first(cur, st) ==
    IF cur = NoSession THEN start_session_session(st)
    ELSE Session(cur.id, cur.start_time, now, cur.revolutions + 1, cur.synced)

\* record_revolution(): the session after the call
record_revolution_session(cur, st) ==
    LET s == IF cur = NoSession THEN start_session_session(st) ELSE cur
    IN  Session(s.id, s.start_time, now, s.revolutions + 1, s.synced)

\* Faulty variant of record_revolution_store: a session is started by every
\* revolution.
record_revolution_store_always_starting(cur, st) == start_session_store(st)

record_revolution_store(cur, st) ==
    IF cur = NoSession THEN start_session_store(st) ELSE st

\* Faulty variant of StampEnd: the end is stamped with the seconds since
\* boot (ticks) instead of the wall clock.
StampEnd_with_ticks(s) ==
    Session(s.id, s.start_time, ticks_ms \div 1000, s.revolutions, s.synced)

\* the session as end_session / save_current_session stamp it before saving
StampEnd(s) == Session(s.id, s.start_time, now, s.revolutions, s.synced)

\* Faulty variant of end_session_store: the ended session is not appended.
end_session_store_without_append(cur, st) == st

\* end_session(): the store with the ended session appended
end_session_store(cur, st) ==
    SessionStore(Append(st.sessions, StampEnd(cur)), st.next_id)

\* save_current_session(): what it returns; ok is what save_sessions returns
save_current_session_result(cur, ok) == IF cur = NoSession THEN TRUE ELSE ok

\* save_current_session(): the store handed to save_sessions
save_current_session_store(cur, st) ==
    SessionStore(Append(st.sessions, StampEnd(cur)), st.next_id)

\* get_unsynced_sessions(): the stored sessions with synced = False, in order
get_unsynced_sessions(st) ==
    SelectSeq(st.sessions, LAMBDA s : ~s.synced)

\* position of the first stored session with this id (0 when there is none)
FindSession(st, session_id) ==
    IF \E i \in 1..Len(st.sessions) : st.sessions[i].id = session_id
    THEN CHOOSE i \in 1..Len(st.sessions) :
           /\ st.sessions[i].id = session_id
           /\ \A j \in 1..(i - 1) : st.sessions[j].id # session_id
    ELSE 0

\* Faulty variant of mark_session_synced_store: the synced session is removed from the
\* store instead of being flagged.
mark_session_synced_store_removing(st, session_id) ==
    SessionStore(SelectSeq(st.sessions, LAMBDA s : s.id # session_id),
                 st.next_id)

\* mark_session_synced(): the store after the call
mark_session_synced_store(st, session_id) ==
    LET i == FindSession(st, session_id)
    IN  IF i = 0 THEN st
        ELSE SessionStore(
               [st.sessions EXCEPT ![i] =
                  Session(@.id, @.start_time, @.end_time, @.revolutions, TRUE)],
               st.next_id)

\* mark_session_synced(): its return value
mark_session_synced_found(st, session_id) == FindSession(st, session_id) # 0

(***************************************************************************)
(* Sync service (sync_service.py).                                         *)
(***************************************************************************)
Bytes == 0..MaxByte

\* Characteristic writes a client may send: 0 to 4 bytes.
Requests ==
    {<<0>>} \cup {<<b, 0>> : b \in Bytes}
            \cup {<<0, 0, 0, 0>>}

\* struct.unpack('<H', request_data)[0]
unpack_H(request_data) == request_data[1] + 256 * request_data[2]

\* struct.pack('<H', session_id), for ids below 256 * 256
pack_H(session_id) == <<session_id % 256, session_id \div 256>>

\* value of the remaining_sessions key of a response that has no such key
Absent == 0 - 1

EmptyChar ==
    [kind |-> "empty", error |-> "", id |-> -1, session |-> NoSession,
     remaining_sessions |-> Absent]

\* json.dumps({"error": ...})
ErrorResponse(message, session_id) ==
    [kind |-> "error", error |-> message, id |-> session_id,
     session |-> NoSession, remaining_sessions |-> Absent]

\* json.dumps(session.to_dict())
SessionResponse(s) ==
    [kind |-> "session", error |-> "", id |-> s.id,
     session |-> Session_to_dict(s), remaining_sessions |-> Absent]

\* json.dumps({"success": True})
SuccessResponse(session_id) ==
    [kind |-> "success", error |-> "", id |-> session_id,
     session |-> NoSession, remaining_sessions |-> Absent]

\* Faulty variant of session_data_response: the synced flag is not looked at.
session_data_response_ignoring_synced(st, request_data) ==
    IF Len(request_data) # 2
    THEN ErrorResponse("Invalid request length", Absent)
    ELSE LET session_id == unpack_H(request_data)
             i == FindSession(st, session_id)
         IN  IF i = 0 THEN ErrorResponse("not found", session_id)
             ELSE SessionResponse(st.sessions[i])

\* Faulty variant of session_data_response: the request is taken to be 4 bytes long.
session_data_response_four_bytes(st, request_data) ==
    IF Len(request_data) # 4
    THEN ErrorResponse("Invalid request length", Absent)
    ELSE LET session_id == unpack_H(request_data)
             i == FindSession(st, session_id)
         IN  IF i = 0 THEN ErrorResponse("not found", session_id)
             ELSE IF st.sessions[i].synced
                  THEN ErrorResponse("already synced", session_id)
                  ELSE SessionResponse(st.sessions[i])

\* The response _handle_session_data_writes writes for a request.
session_data_response(st, request_data) ==
    IF Len(request_data) # 2
    THEN ErrorResponse("Invalid request length", Absent)
    ELSE LET session_id == unpack_H(request_data)
             i == FindSession(st, session_id)
         IN  IF i = 0 THEN ErrorResponse("not found", session_id)
             ELSE IF st.sessions[i].synced
                  THEN ErrorResponse("already synced", session_id)
                  ELSE SessionResponse(st.sessions[i])

\* The response _handle_mark_synced_writes writes for a request.
mark_synced_response(st, request_data) ==
    IF Len(request_data) # 2
    THEN ErrorResponse("Invalid request length", Absent)
    ELSE LET session_id == unpack_H(request_data)
         IN  IF mark_session_synced_found(st, session_id)
             THEN SuccessResponse(session_id)
             ELSE ErrorResponse("not found", session_id)

\* Faulty variant of mark_synced_store: a request flags every stored session.
mark_synced_store_all(st, request_data) ==
    IF Len(request_data) # 2 THEN st
    ELSE SessionStore([i \in 1..Len(st.sessions) |->
                          [st.sessions[i] EXCEPT !.synced = TRUE]],
                      st.next_id)

\* The store after _handle_mark_synced_writes handled a request.
mark_synced_store(st, request_data) ==
    IF Len(request_data) # 2 THEN st
    ELSE mark_session_synced_store(st, unpack_H(request_data))

\* Faulty variant of create_session_range_response: the count leaves out the last id.
create_session_range_response_short(st) ==
    LET unsynced == get_unsynced_sessions(st)
    IN  IF Len(unsynced) = 0 THEN [start |-> 0, count |-> 0]
        ELSE [start |-> unsynced[1].id,
              count |-> unsynced[Len(unsynced)].id - unsynced[1].id]

\* create_session_range_response()
create_session_range_response(st) ==
    LET unsynced == get_unsynced_sessions(st)
    IN  IF Len(unsynced) = 0 THEN [start |-> 0, count |-> 0]
        ELSE [start |-> unsynced[1].id,
              count |-> unsynced[Len(unsynced)].id - unsynced[1].id + 1]

(***************************************************************************)
(* Bookkeeping of write attempts (history, not program state).             *)
(***************************************************************************)
\* MaxStored >= MaxId: every id a session can get
SessionIds == 0..(MaxStored - 1)

IdsOf(sessions) == {sessions[i].id : i \in 1..Len(sessions)}

\* "none": never written; "failed": the last attempt failed; "saved": written;
\* "retried": written after an earlier attempt had failed.
NoAttempts == [i \in SessionIds |-> "none"]

AfterWrite(ps, written, session_id, ok) ==
    IF ok
    THEN [i \in SessionIds |->
            IF i \in IdsOf(written.sessions)
            THEN IF ps[i] \in {"failed", "retried"} THEN "retried" ELSE "saved"
            ELSE ps[i]]
    ELSE [ps EXCEPT ![session_id] = "failed"]

\* after a power cycle only what the file holds is left
AfterBoot(d) ==
    [i \in SessionIds |-> IF i \in IdsOf(d.sessions) THEN "saved" ELSE "none"]

(***************************************************************************)
(* Storage of one session per file (storage.py).  A file name is the       *)
(* sequence of its parts: the characters of the stem, then the extensions. *)
(* The text of a file is what json.loads makes of it: no JSON at all, or   *)
(* an object with the fields it carries.                                   *)
(***************************************************************************)
MaxStartTime == 11

StartTimes == (MaxStartTime - 3)..MaxStartTime

Digits == <<"0", "1", "2", "3", "4", "5", "6", "7", "8", "9">>

IsDigit(c) == \E d \in 1..Len(Digits) : Digits[d] = c

DigitValue(c) == (CHOOSE d \in 1..Len(Digits) : Digits[d] = c) - 1

\* str(n), n >= 0
RECURSIVE str(_)
str(n) ==
    IF n < 10 THEN <<Digits[n + 1]>>
    ELSE str(n \div 10) \o <<Digits[(n % 10) + 1]>>

\* int(text) raises ValueError unless the text is a decimal number
IntRaises(text) == text = <<>> \/ \E i \in 1..Len(text) : ~IsDigit(text[i])

RECURSIVE int(_)
int(text) ==
    IF Len(text) = 1 THEN DigitValue(text[1])
    ELSE int(SubSeq(text, 1, Len(text) - 1)) * 10 + DigitValue(text[Len(text)])

endswith(name, suffix) == name # <<>> /\ name[Len(name)] = suffix

\* name.replace(part, '')
replace(name, part) == SelectSeq(name, LAMBDA c : c # part)

\* f"{config.sessions_dir}/{start_time}.json", within the directory
session_file(start_time) == str(start_time) \o <<".json">>

RequiredFields == {"id", "start_time", "end_time", "revolutions"}

SessionFields == RequiredFields \cup {"synced"}

JsonObject(fields, session) ==
    [kind |-> "object", fields |-> fields, session |-> session]

\* text that is not JSON: a truncated or overwritten file
Unparseable == [kind |-> "garbage", fields |-> {}, session |-> NoSession]

\* Session.to_json(): json.dumps(self.to_dict())
Session_to_json(s) == JsonObject(SessionFields, s)

Returned(session) == [raised |-> "", session |-> session]

Raised(exception) == [raised |-> exception, session |-> NoSession]

\* Session.from_json(json_str): json.loads raises ValueError on text that
\* is not JSON; from_dict reads the four required keys with data[...] and
\* the synced flag with data.get("synced", False)
Session_from_json(text) ==
    IF text.kind # "object" THEN Raised("ValueError")
    ELSE IF ~(RequiredFields \subseteq text.fields) THEN Raised("KeyError")
    ELSE Returned(Session(text.session.id, text.session.start_time,
                          text.session.end_time, text.session.revolutions,
                          IF "synced" \in text.fields
                          THEN text.session.synced ELSE FALSE))

EmptyDir == [n \in {} |-> Unparseable]

\* load_session(start_time): the session, None (Returned(NoSession)) when
\* open raises OSError or the text raises ValueError, or the exception that
\* leaves the function
load_session(dir, start_time) ==
    IF session_file(start_time) \notin DOMAIN dir THEN Returned(NoSession)
    ELSE LET result == Session_from_json(dir[session_file(start_time)])
         IN  IF result.raised = "ValueError" THEN Returned(NoSession)
             ELSE result

\* Faulty variant of listed_ids: the identifier is read from the stem of the
\* name, whatever its extensions.
listed_ids_by_stem(filename) ==
    LET stem == SelectSeq(filename, IsDigit)
    IN  IF IntRaises(stem) THEN <<>> ELSE <<int(stem)>>

\* the body of the loop of available_sessions: what one file name adds to
\* session_ids
listed_ids(filename) ==
    IF ~endswith(filename, ".json") \/ endswith(filename, ".tmp") THEN <<>>
    ELSE IF IntRaises(replace(filename, ".json")) THEN <<>>
    ELSE <<int(replace(filename, ".json"))>>

RECURSIVE session_ids_of(_)
session_ids_of(listing) ==
    IF listing = <<>> THEN <<>>
    ELSE listed_ids(Head(listing)) \o session_ids_of(Tail(listing))

\* Faulty variant of available_sessions: the identifiers are returned in the
\* order uos.listdir gave the files in.
available_sessions_unsorted(listing) == session_ids_of(listing)

\* available_sessions(), listing being what uos.listdir returned
available_sessions(listing) ==
    SortSeq(session_ids_of(listing), LAMBDA a, b : a < b)

LoadedMany(raised, sessions) == [raised |-> raised, sessions |-> sessions]

\* load_session over the identifiers in turn, a None being skipped
RECURSIVE load_each(_, _)
load_each(dir, session_ids) ==
    IF session_ids = <<>> THEN LoadedMany("", <<>>)
    ELSE LET first == load_session(dir, Head(session_ids))
             rest == load_each(dir, Tail(session_ids))
         IN  IF first.raised # "" THEN LoadedMany(first.raised, <<>>)
             ELSE IF rest.raised # "" THEN rest
             ELSE IF first.session = NoSession THEN rest
             ELSE LoadedMany("", <<first.session>> \o rest.sessions)

\* load_since(start_time): the identifiers listed that are greater than the
\* argument, loaded in ascending order
load_since(dir, listing, start_time) ==
    load_each(dir, SelectSeq(available_sessions(listing),
                             LAMBDA t : t > start_time))

\* what a storage call left: the call, its argument and its result
Call(op, arg, raised, ok, session_ids, sessions) ==
    [op |-> op, arg |-> arg, raised |-> raised, ok |-> ok,
     session_ids |-> session_ids, sessions |-> sessions]

NoCall == Call("none", 0, "", TRUE, <<>>, <<>>)

\* The cadence service. calls counts the record_revolution calls made since
\* the fresh state, a 48-bit number held as three 16-bit parts <<top, high,
\* low>>; steps counts those made in this run; measurement is what the
\* encoder called last returned (encoder names it, raised the exception
\* that left it). running, handler, reader and pairs are the tasks of the
\* event loop: which one holds the processor, where each one is and what
\* it holds in its locals, and the <<revolutions, time>> pairs the
\* telemetry held after each whole revolution. serve is serve_connection
\* of main.py with the asyncio.Event of the application state: where the
\* coroutine is, whether the event is set, whether the connection is up and
\* the payload of the last notification. poll is ble_serve_connection of
\* tasks.py: where it is, its locals, the seconds since the last
\* notification (ticks_ms() - last_notification_ms) and the type of the
\* notification its last pass sent ("NONE" when it sent none).
NoCsc ==
    [calls |-> <<0, 0, 0>>, steps |-> 0,
     encoder |-> "none", measurement |-> <<>>, raised |-> "",
     running |-> "none",
     handler |-> [pc |-> "waiting", current_time_ms |-> 0],
     reader |-> [pc |-> "sleeping", time_ms |-> 0, revolutions |-> <<0, 0>>],
     pairs |-> {<<<<0, 0>>, 0>>},
     serve |-> [pc |-> "start", event |-> FALSE, connected |-> TRUE,
                payload |-> <<>>],
     poll |-> [pc |-> "top", connected |-> TRUE,
               notification_type |-> "INIT",
               last_seen_revolution |-> <<0, 0>>,
               current_revolution |-> <<0, 0>>,
               elapsed_s |-> 0, since_s |-> 0, notified |-> "NONE"]]

(***************************************************************************)
(* Initial state: first boot, empty filesystem.                            *)
(***************************************************************************)
Clients == {1, 2}

\* a client that is not running sync_all_sessions
ClientOff ==
    [pc |-> "off", start |-> 0, count |-> 0, session_id |-> 0,
     synced_sessions |-> <<>>, expected |-> <<>>, disturbed |-> FALSE,
     crossed |-> FALSE]

\* a path that names no file, and a file with its content
Missing == [exists |-> FALSE, data |-> <<>>]

FileOf(data) == [exists |-> TRUE, data |-> data]

\* the file atomic_write is called for
filename == <<"/sessions/1000.json">>

\* Faulty variant of temp_file: the temporary file is the target itself.
temp_file_in_place(name) == name

\* temp_file = filename + temp_file_ext
temp_file(name) == name \o <<".tmp">>

FileNames == {filename, temp_file(filename)}

\* no atomic_write call in progress
AwIdle == [pc |-> "idle", text |-> <<>>, old |-> Missing, result |-> TRUE]

InitHistory ==
    /\ lastOp = "boot"
    /\ lastReq = <<>>
    /\ repeated = FALSE
    /\ saveResult = TRUE
    /\ lastSaved = NoSession
    /\ ended_session = NoSession
    /\ delivered = {}

InitBle ==
    /\ session_data_char = EmptyChar
    /\ mark_synced_char = EmptyChar
    /\ dataHandler = "waiting"
    /\ markHandler = "waiting"

InitOther ==
    /\ client = [c \in Clients |-> ClientOff]
    /\ files = [n \in FileNames |-> Missing]
    /\ aw = AwIdle

\* The background tasks of the firmware, by the name of their coroutine.
Tasks ==
    {"session_idle_timeout", "session_periodic_save",
     "_handle_session_data_writes", "_handle_mark_synced_writes",
     "notify_csc_subscriptions"}

\* Every task sits at the await that opens its loop; nothing was raised.
AllSleeping == [task \in Tasks |-> [pc |-> "awaiting", raised |-> "none"]]

\* no call of the storage functions or of the cadence service so far
InitNoCalls ==
    /\ sessions_dir = EmptyDir
    /\ loaded = NoCall
    /\ csc = NoCsc
    /\ tasks = AllSleeping

\* the device after its first boot
InitDevice ==
    /\ now = 0
    /\ bootTime = 0
    /\ saveDue = SAVE_INTERVAL_S
    /\ disk = NoFile
    /\ store = load_sessions(NoFile)
    /\ current_session = NoSession
    /\ persistState = NoAttempts
    /\ InitBle
    /\ InitHistory
    /\ InitOther

Init ==
    /\ InitDevice
    /\ telemetry_state = TelemetryState(<<0, 0>>, 0, 0)
    /\ InitNoCalls

(***************************************************************************)
(* Background tasks and the sensor handler (tasks.py, main.py).            *)
(***************************************************************************)
\* Faulty variant of IdleDue: the session is ended at the first check after
\* an event, whatever the time elapsed.
IdleDue_without_threshold ==
    /\ has_active_session
    /\ telemetry_state.last_physical_time_ms # 0

\* the idle monitor would end the session at its next check
IdleDue ==
    /\ has_active_session
    /\ telemetry_state.last_physical_time_ms # 0
    /\ ticks_diff(ticks_ms, telemetry_state.last_physical_time_ms) >= IDLE_TIMEOUT_MS

IdleTaskRunning == now - bootTime >= IdleStartupDelayS + IdleCheckIntervalS

\* Time passes; no timer deadline is skipped.
Tick ==
    /\ now + TimeStep <= MaxTime
    /\ now + TimeStep <= saveDue
    /\ ~(IdleDue /\ IdleTaskRunning)
    /\ now' = now + TimeStep
    /\ lastOp' = "tick"
    /\ UNCHANGED <<bootTime, saveDue, store, current_session, disk,
                   telemetry_state, bleVars, reqVars, saveVars, delivered,
                   client, awVars, storageVars, csc, tasks>>

\* The reed switch handler: telemetry and session manager record a revolution.
reed_press ==
    /\ telemetry_state' = Telemetry_record_revolution(telemetry_state, ticks_ms)
    /\ current_session' = record_revolution_session(current_session, store)
    /\ store' = record_revolution_store(current_session, store)
    /\ lastOp' = "revolution"
    /\ UNCHANGED <<timeVars, disk, bleVars, reqVars, saveVars, delivered,
                   client, awVars, storageVars, csc, tasks>>

\* The handler within the bounds of the model.
on_reed_press ==
    /\ current_session = NoSession => store.next_id < MaxId
    /\ current_session # NoSession => current_session.revolutions < MaxRevs
    /\ reed_press

\* Faulty variant of session_periodic_save: the session appended for the
\* write is not popped from store.sessions afterwards.
session_periodic_save_without_pop ==
    /\ now >= saveDue
    /\ saveDue' = now + SAVE_INTERVAL_S
    /\ IF has_active_session
       THEN \E ok \in BOOLEAN :
              /\ disk' = save_sessions(
                     save_current_session_store(current_session, store), ok)
              /\ current_session' = StampEnd(current_session)
              /\ saveResult' = ok
              /\ lastSaved' = StampEnd(current_session)
              /\ persistState' = AfterWrite(persistState,
                     save_current_session_store(current_session, store),
                     current_session.id, ok)
              /\ lastOp' = "save_current_session"
              /\ store' = save_current_session_store(current_session, store)
              /\ UNCHANGED ended_session
       ELSE /\ UNCHANGED <<disk, current_session, saveVars, store>>
            /\ lastOp' = "save_skipped"
    /\ UNCHANGED <<now, bootTime, telemetry_state, bleVars, reqVars,
                   delivered, client, awVars, storageVars, csc, tasks>>

\* session_periodic_save wakes up after its sleep.
session_periodic_save ==
    /\ now >= saveDue
    /\ saveDue' = now + SAVE_INTERVAL_S
    /\ IF has_active_session
       THEN \E ok \in BOOLEAN :
              /\ disk' = save_sessions(
                     save_current_session_store(current_session, store), ok)
              /\ current_session' = StampEnd(current_session)
              /\ saveResult' = ok
              /\ lastSaved' = StampEnd(current_session)
              /\ persistState' = AfterWrite(persistState,
                     save_current_session_store(current_session, store),
                     current_session.id, ok)
              /\ lastOp' = "save_current_session"
              /\ UNCHANGED ended_session
       ELSE /\ UNCHANGED <<disk, current_session, saveVars>>
            /\ lastOp' = "save_skipped"
    /\ UNCHANGED <<now, bootTime, store, telemetry_state, bleVars, reqVars,
                   delivered, client, awVars, storageVars, csc, tasks>>

\* Faulty variant of end_session: the slot is cleared only when the write
\* succeeded.
end_session_keeping_unsaved(ok) ==
    /\ IF has_active_session
       THEN /\ disk' = save_sessions(end_session_store(current_session, store), ok)
            /\ saveResult' = ok
            /\ lastSaved' = StampEnd(current_session)
            /\ persistState' = AfterWrite(persistState,
                   end_session_store(current_session, store),
                   current_session.id, ok)
            /\ store' = end_session_store(current_session, store)
            /\ ended_session' = StampEnd(current_session)
            /\ current_session' = IF ok THEN NoSession ELSE current_session
            /\ lastOp' = "end_session"
       ELSE /\ ended_session' = NoSession
            /\ lastOp' = "end_session_none"
            /\ UNCHANGED <<disk, store, current_session, saveResult, lastSaved,
                           persistState>>
    /\ UNCHANGED <<timeVars, telemetry_state, bleVars, reqVars, delivered,
                   client, awVars, storageVars, csc, tasks>>

\* SessionManager.end_session(); ok: the write of the store succeeds.
end_session(ok) ==
    /\ IF has_active_session
       THEN /\ disk' = save_sessions(end_session_store(current_session, store), ok)
            /\ saveResult' = ok
            /\ lastSaved' = StampEnd(current_session)
            /\ persistState' = AfterWrite(persistState,
                   end_session_store(current_session, store),
                   current_session.id, ok)
            /\ store' = end_session_store(current_session, store)
            /\ ended_session' = StampEnd(current_session)
            /\ current_session' = NoSession
            /\ lastOp' = "end_session"
       ELSE /\ ended_session' = NoSession
            /\ lastOp' = "end_session_none"
            /\ UNCHANGED <<disk, store, current_session, saveResult, lastSaved,
                           persistState>>
    /\ UNCHANGED <<timeVars, telemetry_state, bleVars, reqVars, delivered,
                   client, awVars, storageVars, csc, tasks>>

\* One check of session_idle_timeout that finds the session idle: end_session().
session_idle_timeout ==
    /\ IdleTaskRunning
    /\ IdleDue
    /\ \E ok \in BOOLEAN : end_session(ok)

\* Power cycle: memory is lost, the store is loaded from the file.
Restart ==
    /\ bootTime' = now
    /\ saveDue' = now + SAVE_INTERVAL_S
    /\ store' = load_sessions(disk)
    /\ current_session' = NoSession
    /\ telemetry_state' = TelemetryState(<<0, 0>>, 0, 0)
    /\ session_data_char' = EmptyChar
    /\ mark_synced_char' = EmptyChar
    /\ dataHandler' = "waiting"
    /\ markHandler' = "waiting"
    /\ persistState' = AfterBoot(disk)
    /\ lastOp' = "boot"
    /\ UNCHANGED <<now, disk, reqVars, saveResult, lastSaved, ended_session,
                   delivered, client, awVars, storageVars, csc, tasks>>

\* The session storage is wiped (the store file is removed).
ClearStorage ==
    /\ disk.present
    /\ disk' = NoFile
    /\ persistState' = [i \in SessionIds |->
                          IF persistState[i] = "none" THEN "none" ELSE "failed"]
    /\ lastOp' = "clear_storage"
    /\ UNCHANGED <<timeVars, store, current_session, telemetry_state, bleVars,
                   reqVars, saveResult, lastSaved, ended_session, delivered,
                   client, awVars, storageVars, csc, tasks>>

(***************************************************************************)
(* Sync service request handlers (sync_service.py).                        *)
(***************************************************************************)
\* Faulty variant of handle_session_data_write: answering a request moves a
\* server-side cursor, the session handed out is flagged as synced.
handle_session_data_write_marking(request_data, raises) ==
    /\ dataHandler = "waiting"
    /\ lastReq' = request_data
    /\ repeated' = (lastOp = "session_data" /\ lastReq = request_data)
    /\ IF raises
       THEN /\ dataHandler' = "sleeping"
            /\ lastOp' = "session_data_failed"
            /\ UNCHANGED <<session_data_char, delivered, store>>
       ELSE /\ session_data_char' = session_data_response(store, request_data)
            /\ store' = IF session_data_char'.kind = "session"
                        THEN mark_synced_store(store, request_data)
                        ELSE store
            /\ dataHandler' = "waiting"
            /\ delivered' = IF session_data_char'.kind = "session"
                            THEN delivered \cup {session_data_char'.id}
                            ELSE delivered
            /\ lastOp' = "session_data"
    /\ UNCHANGED <<timeVars, current_session, disk, telemetry_state,
                   mark_synced_char, markHandler, saveVars, awVars, storageVars, csc, tasks>>

\* _handle_session_data_writes: one request, from written() to write().
\* raises: an exception escapes the request handling (outer except).
handle_session_data_write(request_data, raises) ==
    /\ dataHandler = "waiting"
    /\ lastReq' = request_data
    /\ repeated' = (lastOp = "session_data" /\ lastReq = request_data)
    /\ IF raises
       THEN /\ dataHandler' = "sleeping"
            /\ lastOp' = "session_data_failed"
            /\ UNCHANGED <<session_data_char, delivered>>
       ELSE /\ session_data_char' = session_data_response(store, request_data)
            /\ dataHandler' = "waiting"
            /\ delivered' = IF session_data_char'.kind = "session"
                            THEN delivered \cup {session_data_char'.id}
                            ELSE delivered
            /\ lastOp' = "session_data"
    /\ UNCHANGED <<devVars, mark_synced_char, markHandler, saveVars, awVars, storageVars, csc, tasks>>

\* _handle_mark_synced_writes: one request, from written() to write().
\* raises: an exception escapes the request handling; ok: the write of the
\* store file succeeds.
handle_mark_synced_write(request_data, raises, ok) ==
    /\ markHandler = "waiting"
    /\ lastReq' = request_data
    /\ repeated' = FALSE
    /\ IF raises
       THEN /\ markHandler' = "sleeping"
            /\ lastOp' = "mark_synced_failed"
            /\ UNCHANGED <<mark_synced_char, store, disk, saveVars>>
       ELSE /\ mark_synced_char' = mark_synced_response(store, request_data)
            /\ store' = mark_synced_store(store, request_data)
            /\ IF mark_synced_char'.kind = "success"
               THEN /\ disk' = save_sessions(store', ok)
                    /\ saveResult' = ok
                    /\ UNCHANGED <<lastSaved, persistState, ended_session>>
               ELSE UNCHANGED <<disk, saveVars>>
            /\ markHandler' = "waiting"
            /\ lastOp' = "mark_synced"
    /\ UNCHANGED <<timeVars, current_session, telemetry_state,
                   session_data_char, dataHandler, delivered, awVars, storageVars, csc, tasks>>

\* _handle_session_data_writes resumes after the sleep that follows an
\* escaped exception.
session_data_handler_resume ==
    /\ dataHandler = "sleeping"
    /\ dataHandler' = "waiting"
    /\ lastOp' = "handler_resume"
    /\ UNCHANGED <<devVars, session_data_char, mark_synced_char, markHandler,
                   reqVars, saveVars, delivered, client, awVars, storageVars, csc, tasks>>

\* _handle_mark_synced_writes resumes after its sleep.
mark_synced_handler_resume ==
    /\ markHandler = "sleeping"
    /\ markHandler' = "waiting"
    /\ lastOp' = "handler_resume"
    /\ UNCHANGED <<devVars, session_data_char, mark_synced_char, dataHandler,
                   reqVars, saveVars, delivered, client, awVars, storageVars, csc, tasks>>

(***************************************************************************)
(* The device: session lifecycle and persistence.                          *)
(***************************************************************************)
Next ==
    \/ Tick
    \/ on_reed_press
    \/ session_periodic_save
    \/ session_idle_timeout
    \/ Restart

Spec == Init /\ [][Next]_vars

(***************************************************************************)
(* The sync service of a device that holds ended sessions.                 *)
(***************************************************************************)
IDLE_TIMEOUT_S == IDLE_TIMEOUT_MS \div 1000

\* The i-th ended session of the device: started at 1000, 2000, ... and ended
\* by the idle monitor.
EndedSession(i) ==
    Session(i, 1000 * (i + 1), 1000 * (i + 1) + IDLE_TIMEOUT_S, i + 1, FALSE)

EndedStore(n) == SessionStore([i \in 1..n |-> EndedSession(i - 1)], n)

\* The device holds 0..MaxId ended sessions, all saved, none synced yet.
InitService ==
    /\ \E n \in 0..MaxId :
         /\ store = EndedStore(n)
         /\ disk = SessionStore_to_dict(EndedStore(n))
         /\ persistState = AfterBoot(SessionStore_to_dict(EndedStore(n)))
    /\ now = 1000 * (MaxId + 1)
    /\ bootTime = 0
    /\ saveDue = 1000 * (MaxId + 1) + SAVE_INTERVAL_S
    /\ current_session = NoSession
    /\ telemetry_state = TelemetryState(<<0, 0>>, 0, 0)
    /\ InitBle
    /\ InitHistory
    /\ InitOther
    /\ InitNoCalls

NextService ==
    \/ \E request_data \in Requests, raises \in BOOLEAN :
         handle_session_data_write(request_data, raises) /\ UNCHANGED client
    \/ \E request_data \in Requests, raises \in BOOLEAN, ok \in BOOLEAN :
         handle_mark_synced_write(request_data, raises, ok) /\ UNCHANGED client
    \/ session_data_handler_resume
    \/ mark_synced_handler_resume

SpecService == InitService /\ [][NextService]_vars

(***************************************************************************)
(* Storage reset: the device, its sessions being fetched by a client, the  *)
(* store file being removed and the device rebooting.                      *)
(***************************************************************************)
\* a client fetches a stored session
fetch_session(session_id) ==
    /\ handle_session_data_write(pack_H(session_id), FALSE)
    /\ UNCHANGED client

NextReset ==
    \/ \E session_id \in SessionIds : fetch_session(session_id)
    \/ on_reed_press
    \/ ClearStorage
    \/ Restart

SpecReset == InitService /\ [][NextReset]_vars

(***************************************************************************)
(* The device with a sync client connected: revolutions, the background    *)
(* tasks and sync requests in any interleaving, from the first boot.       *)
(***************************************************************************)
\* a client marks a session as synced
mark_session(session_id, ok) ==
    /\ handle_mark_synced_write(pack_H(session_id), FALSE, ok)
    /\ UNCHANGED client

NextDevice ==
    \/ Tick
    \/ on_reed_press
    \/ session_periodic_save
    \/ session_idle_timeout
    \/ \E session_id \in 0..(MaxId - 1) : fetch_session(session_id)
    \/ \E session_id \in 0..(MaxId - 1) : mark_session(session_id, TRUE)

SpecDevice == Init /\ [][NextDevice]_vars

(***************************************************************************)
(* The SessionManager called directly: record_revolution and end_session   *)
(* in any order, within the first save interval after boot.                *)
(***************************************************************************)
NextManager ==
    \/ Tick
    \/ on_reed_press
    \/ \E ok \in BOOLEAN : end_session(ok)

SpecManager == Init /\ [][NextManager]_vars

(***************************************************************************)
(* Sync clients (test_ble_client.py SyncClient.sync_all_sessions) against  *)
(* the sync service.  A characteristic write and the handling of it by the *)
(* device are one step; the client reads the response in a later step.     *)
(***************************************************************************)
InLoop(cl) == cl.pc \in {"request", "read_data", "mark", "read_mark"}

\* the for loop of sync_all_sessions moves to the next id or ends
NextIteration(cl) ==
    [cl EXCEPT !.session_id = cl.session_id + 1,
               !.pc = IF cl.session_id + 1 < cl.start + cl.count
                      THEN "request" ELSE "done"]

\* what a characteristic write by client c means to the other clients
OthersAfterWrite(c, is_data) ==
    [d \in Clients \ {c} |->
        [client[d] EXCEPT
            !.disturbed = client[d].disturbed \/ InLoop(client[d]),
            !.crossed = client[d].crossed
                          \/ (is_data /\ client[d].pc = "read_data")]]

\* read_session_range and the head of sync_all_sessions
read_session_range(c) ==
    /\ client[c].pc = "start"
    /\ LET range_data == create_session_range_response(store)
           unsynced == get_unsynced_sessions(store)
       IN  client' = [client EXCEPT ![c] =
              [client[c] EXCEPT
                 !.start = range_data.start,
                 !.count = range_data.count,
                 !.session_id = range_data.start,
                 !.expected = [i \in 1..Len(unsynced) |->
                                  Session_to_dict(unsynced[i])],
                 !.pc = IF range_data.count = 0 THEN "done" ELSE "request"]]
    /\ lastOp' = "session_range"
    /\ UNCHANGED <<devVars, bleVars, reqVars, saveVars, delivered, awVars, storageVars, csc, tasks>>

\* request_session: the write of the session id
request_session_write(c) ==
    /\ client[c].pc = "request"
    /\ handle_session_data_write(pack_H(client[c].session_id), FALSE)
    /\ client' = [d \in Clients |->
                    IF d = c THEN [client[c] EXCEPT !.pc = "read_data"]
                    ELSE OthersAfterWrite(c, TRUE)[d]]

\* request_session: the read of the response, and what sync_all_sessions
\* does with it
request_session_read(c) ==
    /\ client[c].pc = "read_data"
    /\ client' = [client EXCEPT ![c] =
          IF session_data_char.kind # "error"
          THEN [client[c] EXCEPT
                  !.synced_sessions = Append(client[c].synced_sessions,
                                             session_data_char.session),
                  !.pc = "mark"]
          ELSE NextIteration(client[c])]
    /\ lastOp' = "read_session_data"
    /\ UNCHANGED <<devVars, bleVars, reqVars, saveVars, delivered, awVars, storageVars, csc, tasks>>

\* mark_synced: the write of the session id (the store file is writable
\* while the clients sync)
mark_synced_write(c) ==
    /\ client[c].pc = "mark"
    /\ handle_mark_synced_write(pack_H(client[c].session_id), FALSE, TRUE)
    /\ client' = [d \in Clients |->
                    IF d = c THEN [client[c] EXCEPT !.pc = "read_mark"]
                    ELSE OthersAfterWrite(c, FALSE)[d]]

\* mark_synced: the read of the response, which sync_all_sessions ignores
mark_synced_read(c) ==
    /\ client[c].pc = "read_mark"
    /\ client' = [client EXCEPT ![c] = NextIteration(client[c])]
    /\ lastOp' = "read_mark_synced"
    /\ UNCHANGED <<devVars, bleVars, reqVars, saveVars, delivered, awVars, storageVars, csc, tasks>>

\* the stores a sync can meet: ended sessions, some flagged by earlier syncs
SyncedStore(n, flags) ==
    SessionStore([i \in 1..n |-> [EndedSession(i - 1) EXCEPT !.synced = flags[i]]],
                 n)

InitClients ==
    /\ \E n \in 1..MaxStored : \E flags \in [1..n -> BOOLEAN] :
         /\ store = SyncedStore(n, flags)
         /\ disk = SessionStore_to_dict(SyncedStore(n, flags))
         /\ persistState = AfterBoot(SessionStore_to_dict(SyncedStore(n, flags)))
    /\ now = 1000 * (MaxId + 1)
    /\ bootTime = 0
    /\ saveDue = 1000 * (MaxId + 1) + SAVE_INTERVAL_S
    /\ current_session = NoSession
    /\ telemetry_state = TelemetryState(<<0, 0>>, 0, 0)
    /\ InitBle
    /\ InitHistory
    /\ \E second \in {"off", "start"} :
         client = [c \in Clients |->
                     [ClientOff EXCEPT !.pc = IF c = 1 THEN "start" ELSE second]]
    /\ files = [n \in FileNames |-> Missing]
    /\ aw = AwIdle
    /\ InitNoCalls

NextClients ==
    \E c \in Clients :
        \/ read_session_range(c)
        \/ request_session_write(c)
        \/ request_session_read(c)
        \/ mark_synced_write(c)
        \/ mark_synced_read(c)

\* every await of the client loop completes
SpecClients == InitClients /\ [][NextClients]_vars /\ WF_vars(NextClients)

(***************************************************************************)
(* atomic_write (utils.py), statement by statement, with the failures of   *)
(* the filesystem calls and a loss of power at any point.  The text goes   *)
(* to the file one character at a time; rename and remove are single       *)
(* filesystem operations.                                                  *)
(***************************************************************************)
Chars == {"a", "b"}

Texts == UNION {[1..n -> Chars] : n \in 1..MaxLen}

awFrame == <<devVars, bleVars, reqVars, saveVars, delivered, client, storageVars, csc, tasks>>

\* atomic_write(filename, text) is called
aw_call(text) ==
    /\ aw.pc \in {"idle", "returned", "crashed"}
    /\ aw' = [pc |-> "open", text |-> text, old |-> files[filename],
              result |-> TRUE]
    /\ lastOp' = "aw_call"
    /\ UNCHANGED <<files, awFrame>>

\* open(temp_file, 'w'): creates or truncates the file, or raises
aw_open(raises) ==
    /\ aw.pc = "open"
    /\ IF raises
       THEN /\ aw' = [aw EXCEPT !.pc = "cleanup", !.result = FALSE]
            /\ UNCHANGED files
       ELSE /\ files' = [files EXCEPT ![temp_file(filename)] = FileOf(<<>>)]
            /\ aw' = [aw EXCEPT !.pc = "write"]
    /\ lastOp' = "aw_open"
    /\ UNCHANGED awFrame

\* f.write(text): the next character reaches the file, or the write raises;
\* the with block closes the file
aw_write(raises) ==
    /\ aw.pc = "write"
    /\ LET written == files[temp_file(filename)].data
       IN  IF raises
           THEN /\ aw' = [aw EXCEPT !.pc = "cleanup", !.result = FALSE]
                /\ UNCHANGED files
           ELSE IF Len(written) < Len(aw.text)
                THEN /\ files' = [files EXCEPT ![temp_file(filename)] =
                            FileOf(Append(written, aw.text[Len(written) + 1]))]
                     /\ UNCHANGED aw
                ELSE /\ aw' = [aw EXCEPT !.pc = "rename"]
                     /\ UNCHANGED files
    /\ lastOp' = "aw_write"
    /\ UNCHANGED awFrame

\* the files after uos.rename(old_name, new_name)
rename(fs, old_name, new_name) ==
    IF old_name = new_name THEN fs
    ELSE [fs EXCEPT ![new_name] = fs[old_name], ![old_name] = Missing]

\* uos.rename(temp_file, filename), or it raises: return False
aw_rename(raises) ==
    /\ aw.pc = "rename"
    /\ IF raises
       THEN /\ aw' = [aw EXCEPT !.pc = "cleanup", !.result = FALSE]
            /\ UNCHANGED files
       ELSE /\ files' = rename(files, temp_file(filename), filename)
            /\ aw' = [aw EXCEPT !.pc = "cleanup", !.result = TRUE]
    /\ lastOp' = "aw_rename"
    /\ UNCHANGED awFrame

\* Faulty variant of aw_cleanup: the function returns without the finally
\* clause.
aw_cleanup_without_remove(raises) ==
    /\ aw.pc = "cleanup"
    /\ aw' = [aw EXCEPT !.pc = "returned"]
    /\ lastOp' = IF raises THEN "aw_cleanup_failed" ELSE "aw_cleanup"
    /\ UNCHANGED <<files, awFrame>>

\* finally: uos.remove(temp_file), which removes the file or raises OSError,
\* the OSError being passed over; the call returns
aw_cleanup(raises) ==
    /\ aw.pc = "cleanup"
    /\ files' = IF raises THEN files
                ELSE [files EXCEPT ![temp_file(filename)] = Missing]
    /\ aw' = [aw EXCEPT !.pc = "returned"]
    /\ lastOp' = IF raises THEN "aw_cleanup_failed" ELSE "aw_cleanup"
    /\ UNCHANGED awFrame

\* the power is lost while the call is in progress; the filesystem keeps
\* what reached it
Crash ==
    /\ aw.pc \in {"open", "write", "rename", "cleanup"}
    /\ aw' = [aw EXCEPT !.pc = "crashed", !.result = FALSE]
    /\ lastOp' = "crash"
    /\ UNCHANGED <<files, awFrame>>

NextAW ==
    \/ \E text \in Texts : aw_call(text)
    \/ \E raises \in BOOLEAN : aw_open(raises)
    \/ \E raises \in BOOLEAN : aw_write(raises)
    \/ \E raises \in BOOLEAN : aw_rename(raises)
    \/ \E raises \in BOOLEAN : aw_cleanup(raises)
    \/ Crash

SpecAW == Init /\ [][NextAW]_vars

(***************************************************************************)
(* Claims about the session lifecycle and its persistence (Spec).          *)
(***************************************************************************)
Duration(s) == s.end_time - s.start_time

OnDisk(s) ==
    \E i \in 1..Len(disk.sessions) : disk.sessions[i] = Session_to_dict(s)

InMemory(s) ==
    \/ current_session = s
    \/ \E i \in 1..Len(store.sessions) : store.sessions[i] = s

LastWriteWasForSession == lastOp \in {"save_current_session", "end_session"}

\* C1: minimum-duration gate. No record of a session shorter than
\* session_min_duration_s is ever in durable storage, and a session of at
\* least that duration that was ended or periodically saved with a successful
\* write has its record in durable storage.
C1_MinimumDurationGate ==
    /\ \A i \in 1..Len(disk.sessions) :
          Duration(disk.sessions[i]) >= session_min_duration_s
    /\ (LastWriteWasForSession /\ saveResult
          /\ Duration(lastSaved) >= session_min_duration_s) => OnDisk(lastSaved)

\* After a failed write the session it was made for is still held in memory
\* with the data of the attempt, every session whose last write failed is
\* held in memory, and after a successful write made by the periodic save or
\* by end_session every session held in memory, those of earlier failed
\* writes included, is in the file.
SessionsKeptAcrossFailedSave ==
    /\ (LastWriteWasForSession /\ ~saveResult) => InMemory(lastSaved)
    /\ \A id \in SessionIds :
          persistState[id] = "failed" =>
            \/ current_session.id = id
            \/ id \in IdsOf(store.sessions)
    /\ (LastWriteWasForSession /\ saveResult) =>
          /\ OnDisk(lastSaved)
          /\ \A i \in 1..Len(store.sessions) : OnDisk(store.sessions[i])

\* a session held in memory whose last write failed
FailedSavePending == \E id \in SessionIds : persistState[id] = "failed"

\* C10: a failed save is not a loss. A session whose write failed stays in
\* memory, a later successful write puts it in the file, and a periodic save
\* tick that finds a session whose last write failed attempts the write
\* again.
C10_FailedSaveIsRetried ==
    [][/\ SessionsKeptAcrossFailedSave'
       /\ (FailedSavePending /\ saveDue' # saveDue
              /\ lastOp' \in {"save_current_session", "save_skipped"})
              => lastOp' = "save_current_session"]_vars

(***************************************************************************)
(* Claims about the sync service (SpecService).                            *)
(***************************************************************************)
\* a 4-byte little-endian unsigned marker
Marker(request_data) ==
    request_data[1] + 256 * request_data[2] + 65536 * request_data[3]
        + 16777216 * request_data[4]

NewerThan(m) == {i \in 1..Len(store.sessions) : store.sessions[i].start_time > m}

SyncOps == {"session_data", "mark_synced"}

C5_RepeatedRequestSameResponse ==
    [][(lastOp = "session_data" /\ lastOp' = "session_data"
            /\ lastReq' = lastReq)
          => session_data_char' = session_data_char]_vars

\* C5 witness: the same request was handled twice in a row and answered with
\* a session.
C5_Witness ==
    /\ repeated
    /\ lastOp = "session_data"
    /\ session_data_char.kind = "session"

LengthError == ErrorResponse("Invalid request length", Absent)

C9_NoKeyReuse ==
    has_active_session => current_session.id \notin delivered

(***************************************************************************)
(* Claims about the sync clients (SpecClients).                            *)
(***************************************************************************)
AllDone == \A c \in Clients : client[c].pc \in {"off", "done"}

Received(c) ==
    {client[c].synced_sessions[k] : k \in 1..Len(client[c].synced_sessions)}

Offered(c) == {client[c].expected[i] : i \in 1..Len(client[c].expected)}

C2_OldOrNewNeverPartial ==
    aw.pc # "idle" =>
        /\ files[filename] \in {aw.old, FileOf(aw.text)}
        /\ aw.pc \in {"open", "write", "rename"} => files[filename] = aw.old
        /\ (aw.pc = "returned" /\ aw.result) => files[filename] = FileOf(aw.text)
        /\ (aw.pc = "returned" /\ ~aw.result) => files[filename] = aw.old

\* C2 witness: the power was lost while the temporary file held a part of the
\* new text, and the target holds its old, different content.
C2_Witness ==
    /\ aw.pc = "crashed"
    /\ files[temp_file(filename)].exists
    /\ Len(files[temp_file(filename)].data) \in 1..(Len(aw.text) - 1)
    /\ aw.old.exists
    /\ aw.old # FileOf(aw.text)
    /\ files[filename] = aw.old

(***************************************************************************)
(* Claims about the session state machine (SpecDevice, Spec).              *)
(***************************************************************************)
\* sessions started since the boot and not ended yet
LiveSessions == store.next_id - Len(store.sessions)

\* C11: at most one session is active at any time. Under any interleaving
\* of revolutions, periodic saves, idle-timeout ends and sync requests, the
\* number of sessions started and not yet ended is 1 when a session is
\* active and 0 when none is, and the active session is none of the ended
\* ones.
C11_AtMostOneActive ==
    /\ LiveSessions = IF has_active_session THEN 1 ELSE 0
    /\ has_active_session =>
          /\ current_session.id = store.next_id - 1
          /\ current_session.id \notin IdsOf(store.sessions)

\* C11 witness: a session is active while an ended session has just been
\* marked synced by a client.
C11_Witness ==
    /\ has_active_session
    /\ lastOp = "mark_synced"
    /\ Len(store.sessions) >= 1
    /\ store.sessions[1].synced

RECURSIVE SumRevolutions(_)
SumRevolutions(sessions) ==
    IF sessions = <<>> THEN 0
    ELSE sessions[1].revolutions + SumRevolutions(Tail(sessions))

\* revolutions recorded since the boot (cumulative_revolutions, below 2^16)
RevolutionsRecorded == telemetry_state.cumulative_revolutions[2]

\* C12: record_revolution transition. Called in Idle it leaves an active
\* session with a fresh id, start_time = end_time = now and revolutions = 1;
\* called in Active it adds exactly 1 to revolutions, sets end_time = now and
\* leaves id and start_time as they were. Hence the active session counts
\* the record_revolution calls made since it started: all the calls since
\* the boot less those counted by the sessions ended before.
C12_RecordRevolution ==
    /\ [][lastOp' = "revolution" =>
            IF has_active_session
            THEN /\ current_session' =
                        [current_session EXCEPT
                            !.revolutions = current_session.revolutions + 1,
                            !.end_time = now]
                 /\ store' = store
            ELSE /\ current_session' = Session(store.next_id, now, now, 1, FALSE)
                 /\ store'.sessions = store.sessions]_vars
    /\ [](has_active_session =>
            current_session.revolutions
                = RevolutionsRecorded - SumRevolutions(store.sessions))

\* C12 witness: the second session of the device has counted several
\* revolutions, the last one later than its start.
C12_Witness ==
    /\ lastOp = "revolution"
    /\ has_active_session
    /\ Len(store.sessions) >= 1
    /\ current_session.revolutions >= 2
    /\ current_session.end_time > current_session.start_time

\* C13: end_session. When a session is active the call attempts to write
\* the store with the session appended, carrying end_time = now, clears the
\* active slot whether the write succeeded or not, and returns the ended
\* session; when no session is active it returns None, writes nothing and
\* leaves the stored sessions as they were.
C13_EndSession ==
    [][/\ lastOp' = "end_session" =>
            /\ has_active_session
            /\ current_session' = NoSession
            /\ ended_session' = [current_session EXCEPT !.end_time = now]
            /\ store'.sessions = Append(store.sessions, ended_session')
            /\ store'.next_id = store.next_id
            /\ disk' = IF saveResult' THEN SessionStore_to_dict(store') ELSE disk
       /\ lastOp' = "end_session_none" =>
            /\ ~has_active_session
            /\ current_session' = NoSession
            /\ ended_session' = NoSession
            /\ store' = store
            /\ disk' = disk]_vars

\* C13 witness: a session has been ended with a failed write: the slot is
\* empty, the session was returned and is held by the store only.
C13_Witness ==
    /\ lastOp = "end_session"
    /\ ~saveResult
    /\ ~has_active_session
    /\ ended_session # NoSession
    /\ ended_session.revolutions >= 1
    /\ store.sessions[Len(store.sessions)] = ended_session
    /\ ~OnDisk(ended_session)

(***************************************************************************)
(* The idle monitor under fair scheduling.  The asyncio tasks loop for     *)
(* ever, so the clock, the periodic save and the idle check each keep      *)
(* running.  A revolution is recorded only while the clock of the model    *)
(* leaves room for the idle timeout that follows it.                       *)
(***************************************************************************)
reed_press_before_horizon ==
    /\ now + IDLE_TIMEOUT_S <= MaxTime
    /\ on_reed_press

\* A check of session_idle_timeout that finds last_event_ms == 0 and goes
\* back to the head of the loop.
idle_check_skipped ==
    /\ IdleTaskRunning
    /\ has_active_session
    /\ telemetry_state.last_physical_time_ms = 0
    /\ lastOp # "idle_check_skipped"
    /\ lastOp' = "idle_check_skipped"
    /\ UNCHANGED <<devVars, bleVars, reqVars, saveVars, delivered, client,
                   awVars, storageVars, csc, tasks>>

\* session_idle_timeout sleeps until its next check.
idle_sleep ==
    /\ lastOp = "idle_check_skipped"
    /\ lastOp' = "idle_sleep"
    /\ UNCHANGED <<devVars, bleVars, reqVars, saveVars, delivered, client,
                   awVars, storageVars, csc, tasks>>

NextIdle ==
    \/ Tick
    \/ reed_press_before_horizon
    \/ session_periodic_save
    \/ session_idle_timeout
    \/ idle_check_skipped
    \/ idle_sleep

SpecIdle ==
    /\ Init
    /\ [][NextIdle]_vars
    /\ WF_vars(Tick)
    /\ WF_vars(session_periodic_save)
    /\ WF_vars(session_idle_timeout)
    /\ WF_vars(idle_check_skipped)
    /\ WF_vars(idle_sleep)

\* C14: idle timeout liveness. Whenever a session is active, either another
\* revolution is recorded or the session is eventually ended, whatever the
\* tick timestamp of the last event, 0 included.
C14_IdleSessionEventuallyEnded ==
    \A n \in 0..(MaxId * MaxRevs) :
        (has_active_session /\ RevolutionsRecorded = n)
            ~> (~has_active_session \/ RevolutionsRecorded # n)

\* What holds of C14: a session whose last event has a tick timestamp other
\* than 0 is eventually ended.
C14_StampedSessionEventuallyEnded ==
    (has_active_session /\ telemetry_state.last_physical_time_ms # 0)
        ~> ~has_active_session

\* The state C14 fails from: an active session whose last event was recorded
\* at tick 0, with the idle timeout long past.
C14_StuckAtTickZero ==
    /\ has_active_session
    /\ telemetry_state.last_physical_time_ms = 0
    /\ IdleTaskRunning
    /\ ticks_diff(ticks_ms, telemetry_state.last_physical_time_ms) >= IDLE_TIMEOUT_MS

(***************************************************************************)
(* The idle-timeout scenario, second by second: from an empty store, three *)
(* revolutions over two seconds, the first at boot and the last two        *)
(* seconds later, then no revolution any more.  The idle monitor checks    *)
(* every IdleCheckIntervalS after its startup delay.                       *)
(***************************************************************************)
Scenario == [revolutions |-> 3, span_s |-> 2, inactivity_s |-> 400]

ScenarioEnd == Scenario.span_s + Scenario.inactivity_s

ScenarioHorizon == Scenario.span_s + IDLE_TIMEOUT_S + IdleCheckIntervalS

IdleCheckInstant ==
    /\ IdleTaskRunning
    /\ (now - bootTime - IdleStartupDelayS) % IdleCheckIntervalS = 0

ScenarioRevolutionsDone ==
    /\ RevolutionsRecorded = Scenario.revolutions
    /\ telemetry_state.last_physical_time_ms = Scenario.span_s * 1000

scenario_tick ==
    /\ now < ScenarioHorizon
    /\ now + 1 <= saveDue
    /\ ~(IdleCheckInstant /\ IdleDue)
    /\ RevolutionsRecorded >= 1
    /\ now >= Scenario.span_s => ScenarioRevolutionsDone
    /\ now' = now + 1
    /\ lastOp' = "tick"
    /\ UNCHANGED <<bootTime, saveDue, store, current_session, disk,
                   telemetry_state, bleVars, reqVars, saveVars, delivered,
                   client, awVars, storageVars, csc, tasks>>

scenario_reed_press ==
    /\ now <= Scenario.span_s
    /\ RevolutionsRecorded < Scenario.revolutions
    /\ now < Scenario.span_s => RevolutionsRecorded < Scenario.revolutions - 1
    /\ reed_press

scenario_idle_check ==
    /\ IdleCheckInstant
    /\ session_idle_timeout

NextScenario ==
    \/ scenario_tick
    \/ scenario_reed_press
    \/ session_periodic_save
    \/ scenario_idle_check

SpecScenario == Init /\ [][NextScenario]_vars

AllWritesSucceeded == \A i \in SessionIds : persistState[i] \in {"none", "saved"}

\* C15: idle-timeout scenario. After 3 revolutions over 2 seconds and 400
\* seconds of inactivity, with every write successful, exactly one session is
\* persisted, with revolutions = 3 and end_time - start_time of about 2
\* seconds: the span of the revolutions, not the time the session was
\* written or ended at.
C15_ScenarioPersistsSpanOfRevolutions ==
    (now >= ScenarioEnd /\ AllWritesSucceeded) =>
        /\ Len(disk.sessions) = 1
        /\ disk.sessions[1].revolutions = Scenario.revolutions
        /\ Duration(disk.sessions[1]) \in
               (Scenario.span_s - 1)..(Scenario.span_s + 1)

\* What holds of C15: the one persisted session counts the 3 revolutions,
\* and its end_time is the time of the write that persisted it, so that its
\* duration is the save interval or more; the idle monitor ends the session
\* after IDLE_TIMEOUT_MS, not within the 400 seconds.
C15_ScenarioPersistsTimeOfWrite ==
    /\ (now >= ScenarioEnd /\ AllWritesSucceeded) =>
          /\ Len(disk.sessions) = 1
          /\ disk.sessions[1].revolutions = Scenario.revolutions
          /\ Duration(disk.sessions[1]) >= SAVE_INTERVAL_S
    /\ now < Scenario.span_s + IDLE_TIMEOUT_S =>
          (RevolutionsRecorded >= 1 => has_active_session)
    /\ lastOp = "end_session" =>
          /\ ended_session.end_time = now
          /\ Duration(ended_session) >= IDLE_TIMEOUT_S

\* The scenario has run its 400 seconds of inactivity with the session
\* still active and its one record written by the periodic save.
C15_ScenarioOver ==
    /\ now = ScenarioEnd
    /\ AllWritesSucceeded
    /\ has_active_session
    /\ Len(disk.sessions) = 1
    /\ Duration(disk.sessions[1]) = SAVE_INTERVAL_S

(***************************************************************************)
(* Claims about the identity of persisted sessions (SpecDevice).           *)
(***************************************************************************)
\* the sessions the device holds in memory, ended or active
HeldSessions ==
    store.sessions \o (IF has_active_session THEN <<current_session>> ELSE <<>>)

DistinctStartTimes(sessions) ==
    \A i, j \in 1..Len(sessions) :
        i # j => sessions[i].start_time # sessions[j].start_time

\* C16: session identity uniqueness. Through revolutions, periodic saves and
\* idle-timeout ends, any two distinct sessions persisted by the device, and
\* any two it holds in memory, have different start_time values.
C16_StartTimesDiffer ==
    /\ DistinctStartTimes(disk.sessions)
    /\ DistinctStartTimes(HeldSessions)

\* C16 witness: two sessions are persisted, the first ended by the idle
\* monitor and the second started afterwards.
C16_Witness ==
    /\ Len(disk.sessions) >= 2
    /\ Len(store.sessions) >= 1
    /\ disk.sessions[1] = Session_to_dict(store.sessions[1])
    /\ disk.sessions[2].start_time >= disk.sessions[1].end_time

(***************************************************************************)
(* The session files and the calls of storage.py.  The directory comes to  *)
(* hold record files written by save_session, temporary files left by a    *)
(* loss of power, records damaged or written by another firmware, and      *)
(* files that are no records at all.                                       *)
(***************************************************************************)
\* the session of the model that starts at start_time
StoredSession(start_time) ==
    Session(start_time, start_time, start_time + 1, 1, FALSE)

RecordNames == {session_file(t) : t \in StartTimes}

TempNames == {session_file(t) \o <<".tmp">> : t \in StartTimes}

OtherNames == {<<"x", ".json">>, <<"9", ".tmp", ".json">>, <<"9">>}

\* the texts a file of that name may come to hold
ContentsFor(name) ==
    IF name \in RecordNames
    THEN {Session_to_json(StoredSession(int(replace(name, ".json")))),
          JsonObject(SessionFields \ {"synced"},
                     StoredSession(int(replace(name, ".json")))),
          JsonObject(SessionFields \ {"revolutions"},
                     StoredSession(int(replace(name, ".json")))),
          Unparseable}
    ELSE IF name \in TempNames
    THEN {Session_to_json(StoredSession(int(SelectSeq(name, IsDigit)))),
          Unparseable}
    ELSE {Unparseable}

Put(dir, name, text) ==
    [n \in DOMAIN dir \cup {name} |-> IF n = name THEN text ELSE dir[n]]

Remove(dir, name) == [n \in DOMAIN dir \ {name} |-> dir[n]]

\* the orders uos.listdir may return the names in
Listings(names) ==
    {l \in [1..Cardinality(names) -> names] :
        \A i, j \in 1..Cardinality(names) : i # j => l[i] # l[j]}

storageFrame ==
    <<devVars, bleVars, reqVars, saveVars, delivered, client, awVars, csc,
      tasks>>

\* a file appears in the directory, or its text is replaced, by something
\* other than save_session
filesystem_holds(name, text) ==
    /\ loaded = NoCall
    /\ Cardinality(DOMAIN sessions_dir \cup {name}) <= MaxStored
    /\ sessions_dir' = Put(sessions_dir, name, text)
    /\ loaded' = NoCall
    /\ lastOp' = "storage"
    /\ UNCHANGED storageFrame

\* save_session(session): atomic_write to the record file through its
\* temporary file.  outcome "ok": renamed, True; "failed": an exception, the
\* temporary file removed, False; "power_loss": the power is lost between
\* the write of the temporary file and the rename.
save_session(session, outcome, written) ==
    /\ loaded = NoCall
    /\ Cardinality(DOMAIN sessions_dir
                   \cup {session_file(session.start_time)}) <= MaxStored
    /\ outcome = "power_loss" =>
          Cardinality(DOMAIN sessions_dir
              \cup {session_file(session.start_time) \o <<".tmp">>}) <= MaxStored
    /\ sessions_dir' =
          IF outcome = "ok"
          THEN Put(Remove(sessions_dir,
                          session_file(session.start_time) \o <<".tmp">>),
                   session_file(session.start_time), Session_to_json(session))
          ELSE IF outcome = "failed"
          THEN Remove(sessions_dir,
                      session_file(session.start_time) \o <<".tmp">>)
          ELSE Put(sessions_dir,
                   session_file(session.start_time) \o <<".tmp">>,
                   IF written THEN Session_to_json(session) ELSE Unparseable)
    /\ loaded' = IF outcome = "power_loss" THEN NoCall
                 ELSE Call("save_session", session.start_time, "",
                           outcome = "ok", <<>>, <<>>)
    /\ lastOp' = "storage"
    /\ UNCHANGED storageFrame

available_sessions_call ==
    /\ loaded = NoCall
    /\ \E listing \in Listings(DOMAIN sessions_dir) :
          loaded' = Call("available_sessions", 0, "", TRUE,
                         available_sessions(listing), <<>>)
    /\ lastOp' = "storage"
    /\ UNCHANGED <<storageFrame, sessions_dir>>

load_session_call(start_time) ==
    /\ loaded = NoCall
    /\ loaded' = Call("load_session", start_time,
                      load_session(sessions_dir, start_time).raised, TRUE, <<>>,
                      IF load_session(sessions_dir, start_time).session = NoSession
                      THEN <<>>
                      ELSE <<load_session(sessions_dir, start_time).session>>)
    /\ lastOp' = "storage"
    /\ UNCHANGED <<storageFrame, sessions_dir>>

load_since_call(start_time) ==
    /\ loaded = NoCall
    /\ \E listing \in Listings(DOMAIN sessions_dir) :
          loaded' = Call("load_since", start_time,
                         load_since(sessions_dir, listing, start_time).raised,
                         TRUE, <<>>,
                         load_since(sessions_dir, listing, start_time).sessions)
    /\ lastOp' = "storage"
    /\ UNCHANGED <<storageFrame, sessions_dir>>

\* the caller has taken the result of the call
call_returned ==
    /\ loaded # NoCall
    /\ loaded' = NoCall
    /\ lastOp' = "storage"
    /\ UNCHANGED <<storageFrame, sessions_dir>>

NextStorage ==
    \/ \E name \in RecordNames \cup TempNames \cup OtherNames :
          \E text \in ContentsFor(name) : filesystem_holds(name, text)
    \/ \E t \in StartTimes : \E outcome \in {"ok", "failed", "power_loss"} :
          \E written \in BOOLEAN : save_session(StoredSession(t), outcome, written)
    \/ available_sessions_call
    \/ \E t \in StartTimes : load_session_call(t)
    \/ \E q \in StartTimes \cup {MaxStartTime - 4} : load_since_call(q)
    \/ call_returned

SpecStorage == Init /\ [][NextStorage]_vars

(***************************************************************************)
(* Claims about the session files (SpecStorage).                           *)
(***************************************************************************)
\* every record file of the directory holds a session
RecordsWellFormed ==
    \A n \in DOMAIN sessions_dir \cap RecordNames :
        Session_from_json(sessions_dir[n]).raised = ""

HasRecord(t) == session_file(t) \in DOMAIN sessions_dir

\* the sessions of the record files with start_time >= t, in ascending order
RECURSIVE RecordsFrom(_)
RecordsFrom(t) ==
    IF t > MaxStartTime THEN <<>>
    ELSE (IF HasRecord(t) /\ Session_from_json(sessions_dir[session_file(t)]).raised = ""
          THEN <<StoredSession(t)>> ELSE <<>>) \o RecordsFrom(t + 1)

\* C17: load-since correctness. Whatever well-formed records the directory
\* holds and whatever the query timestamp q, the sessions returned for q are
\* exactly those with start_time > q, in ascending order of start_time; the
\* session that starts at q is not among them.
C17_LoadSinceStrictlyGreaterAscending ==
    (loaded.op = "load_since" /\ RecordsWellFormed) =>
        /\ loaded.raised = ""
        /\ loaded.sessions = RecordsFrom(loaded.arg + 1)
        /\ \A i \in 1..Len(loaded.sessions) :
              loaded.sessions[i].start_time # loaded.arg

\* C17 witness: a query at the start_time of one record, with a record
\* before it and a record after it.
C17_Witness ==
    /\ loaded.op = "load_since"
    /\ RecordsWellFormed
    /\ HasRecord(loaded.arg)
    /\ \E t \in StartTimes : t < loaded.arg /\ HasRecord(t)
    /\ Len(loaded.sessions) >= 1
    /\ Cardinality(DOMAIN sessions_dir \cap RecordNames) = Cardinality(DOMAIN sessions_dir)

\* C18: corrupt record isolation. Loading a record that cannot be turned
\* into a session, because its text is unparseable or because its JSON lacks
\* a required field, reports a failure value and raises nothing, and a query
\* over several records returns all the other, well-formed sessions.
C18_CorruptRecordIsSkipped ==
    /\ loaded.op = "load_session" => loaded.raised = ""
    /\ loaded.op = "load_since" =>
          /\ loaded.raised = ""
          /\ loaded.sessions = RecordsFrom(loaded.arg + 1)

\* no record file holds JSON that lacks a required field
NoFieldMissing ==
    \A n \in DOMAIN sessions_dir \cap RecordNames :
        Session_from_json(sessions_dir[n]).raised # "KeyError"

\* What holds of C18: a record whose text is unparseable is reported as None
\* and skipped by the query, which returns the well-formed sessions; a
\* record whose JSON lacks a required field makes load_session raise
\* KeyError.
C18_UnparseableRecordIsSkipped ==
    /\ (loaded.op = "load_session" /\ HasRecord(loaded.arg)) =>
          loaded.raised =
              IF Session_from_json(
                     sessions_dir[session_file(loaded.arg)]).raised = "KeyError"
              THEN "KeyError" ELSE ""
    /\ (loaded.op = "load_since" /\ NoFieldMissing) =>
          /\ loaded.raised = ""
          /\ loaded.sessions = RecordsFrom(loaded.arg + 1)

\* The case C18 fails in: load_session of a record whose JSON lacks the
\* revolutions field has raised KeyError.
C18_KeyErrorRaised ==
    /\ loaded.op = "load_session"
    /\ HasRecord(loaded.arg)
    /\ sessions_dir[session_file(loaded.arg)].kind = "object"
    /\ "revolutions" \notin sessions_dir[session_file(loaded.arg)].fields
    /\ loaded.raised = "KeyError"

\* what load_session left when there is no file for the start_time
AbsentResult(start_time) ==
    Call("load_session", start_time,
         load_session(EmptyDir, start_time).raised, TRUE, <<>>, <<>>)

\* C19: load distinguishes absence from corruption. The result of loading a
\* start_time whose record file exists but fails to parse differs from the
\* result of loading a start_time that has no record file.
C19_CorruptDiffersFromAbsent ==
    (/\ loaded.op = "load_session"
     /\ HasRecord(loaded.arg)
     /\ Session_from_json(sessions_dir[session_file(loaded.arg)]).raised # "")
        => loaded # AbsentResult(loaded.arg)

\* What holds of C19: load_session returns None both when the file is absent
\* and when its text is not JSON.
C19_NoneForAbsentAndUnparseable ==
    (/\ loaded.op = "load_session"
     /\ \/ ~HasRecord(loaded.arg)
        \/ sessions_dir[session_file(loaded.arg)] = Unparseable)
        => /\ loaded.raised = ""
           /\ loaded.sessions = <<>>

\* The case C19 fails in: an unparseable record has been loaded.
C19_UnparseableLoaded ==
    /\ loaded.op = "load_session"
    /\ HasRecord(loaded.arg)
    /\ sessions_dir[session_file(loaded.arg)] = Unparseable

\* a temporary file of the record of t is in the directory
HasTemp(t) == session_file(t) \o <<".tmp">> \in DOMAIN sessions_dir

\* C20: a '.tmp' file is never treated as a session. Whatever the directory
\* holds, a '<start_time>.json.tmp' left by a loss of power included, every
\* identifier listed is that of a '<start_time>.json' file of the directory,
\* no identifier is listed twice, and a start_time that has a temporary
\* file only is neither listed nor loaded.
C20_TempFileNeverASession ==
    /\ loaded.op = "available_sessions" =>
          /\ \A i \in 1..Len(loaded.session_ids) : HasRecord(loaded.session_ids[i])
          /\ \A i, j \in 1..Len(loaded.session_ids) :
                i # j => loaded.session_ids[i] # loaded.session_ids[j]
    /\ (loaded.op = "load_session" /\ ~HasRecord(loaded.arg)) =>
          /\ loaded.raised = ""
          /\ loaded.sessions = <<>>
    /\ loaded.op = "load_since" =>
          \A i \in 1..Len(loaded.sessions) :
              HasRecord(loaded.sessions[i].start_time)

\* C20 witness: the directory holds a record file and the temporary file,
\* completely written, of a record that has no file of its own; the listing
\* has been taken.
C20_Witness ==
    /\ loaded.op = "available_sessions"
    /\ loaded.session_ids # <<>>
    /\ \E t \in StartTimes :
          /\ HasTemp(t)
          /\ ~HasRecord(t)
          /\ sessions_dir[session_file(t) \o <<".tmp">>]
                = Session_to_json(StoredSession(t))

(***************************************************************************)
(* available_sessions over the names a directory may hold: every sequence  *)
(* of up to three parts among digits, '.json' and '.tmp'.                  *)
(***************************************************************************)
NameParts == {"0", "9", ".json", ".tmp"}

AnyNames == UNION {[1..n -> NameParts] : n \in 1..3}

\* the directories of up to MaxLen files; no text is read by the listing
ListingDirs ==
    {EmptyDir} \cup
    {[n \in {picked[i] : i \in 1..MaxLen} |-> Unparseable] :
        picked \in [1..MaxLen -> AnyNames]}

InitListing ==
    /\ InitDevice
    /\ telemetry_state = TelemetryState(<<0, 0>>, 0, 0)
    /\ sessions_dir \in ListingDirs
    /\ loaded = NoCall
    /\ csc = NoCsc
    /\ tasks = AllSleeping

\* available_sessions() when uos.listdir raises OSError: the directory is
\* missing or cannot be read
available_sessions_unreadable ==
    /\ loaded = NoCall
    /\ loaded' = Call("available_sessions_unreadable", 0, "", TRUE, <<>>, <<>>)
    /\ lastOp' = "storage"
    /\ UNCHANGED <<storageFrame, sessions_dir>>

NextListing ==
    \/ available_sessions_call
    \/ available_sessions_unreadable
    \/ call_returned

SpecListing == InitListing /\ [][NextListing]_vars

\* the members of a set of integers in ascending order
RECURSIVE Ascending(_)
Ascending(numbers) ==
    IF numbers = {} THEN <<>>
    ELSE LET least == CHOOSE n \in numbers : \A m \in numbers : n <= m
         IN  <<least>> \o Ascending(numbers \ {least})

\* C21: identifier listing. available_sessions returns, in ascending order,
\* exactly the integers n for which a file named '<n>.json' is in the
\* directory; files of any other name are skipped, and a directory that is
\* missing or cannot be read gives the empty list.
C21_ListsExactlyTheRecordNames ==
    /\ loaded.op = "available_sessions" =>
          loaded.session_ids =
              Ascending({n \in 0..99 : session_file(n) \in DOMAIN sessions_dir})
    /\ loaded.op = "available_sessions_unreadable" => loaded.session_ids = <<>>

\* the name ends in '.json' and is a decimal number once every '.json' is
\* taken out of it
NumericJsonName(name) ==
    /\ name[Len(name)] = ".json"
    /\ SelectSeq(name, IsDigit) # <<>>
    /\ \A i \in 1..Len(name) : IsDigit(name[i]) \/ name[i] = ".json"

\* What holds of C21: the list is in ascending order, it holds the number
\* spelled by every name that ends in '.json' and leaves a decimal number
\* once each '.json' is taken out, leading zeros and a repeated '.json'
\* included, and nothing else; with names '<n>.json' only it is the list of
\* the claim.
C21_ListsEveryNumericJsonName ==
    /\ loaded.op = "available_sessions" =>
          /\ \A i \in 1..(Len(loaded.session_ids) - 1) :
                loaded.session_ids[i] <= loaded.session_ids[i + 1]
          /\ {loaded.session_ids[i] : i \in 1..Len(loaded.session_ids)} =
                {int(SelectSeq(name, IsDigit)) :
                    name \in {n \in DOMAIN sessions_dir : NumericJsonName(n)}}
          /\ Len(loaded.session_ids) =
                Cardinality({n \in DOMAIN sessions_dir : NumericJsonName(n)})
    /\ (/\ loaded.op = "available_sessions"
        /\ \A name \in DOMAIN sessions_dir :
              NumericJsonName(name) => name = session_file(int(SelectSeq(name, IsDigit))))
          => loaded.session_ids =
                Ascending({n \in 0..99 : session_file(n) \in DOMAIN sessions_dir})
    /\ loaded.op = "available_sessions_unreadable" => loaded.session_ids = <<>>

\* The case C21 fails in: the directory holds '09.json' and no '9.json', and
\* the list holds 9.
C21_LeadingZeroListed ==
    /\ loaded.op = "available_sessions"
    /\ <<"0", "9", ".json">> \in DOMAIN sessions_dir
    /\ ~HasRecord(9)
    /\ loaded.session_ids = <<9>>

(***************************************************************************)
(* The cadence measurement (state.py, csc_service.py, models.py).          *)
(***************************************************************************)
\* TelemetryManager.record_revolution(): the telemetry after the call, with
\* time.ticks_ms() returning current_time_ms
TelemetryManager_record_revolution(telemetry, current_time_ms) ==
    [cumulative_revolutions |-> Inc32(telemetry.cumulative_revolutions),
     last_event_time |-> TimeInUnits(current_time_ms) % 65536,
     last_physical_time_ms |-> current_time_ms]

\* struct.pack of one 'B' or 'I' field, little-endian, as a sequence of
\* bytes; a 32-bit value comes as its two halves <<high, low>>
pack_B(value) == <<value>>

pack_I(halves) == pack_H(halves[2]) \o pack_H(halves[1])

\* The two interpreters the firmware and its tests run on: MicroPython's
\* struct.pack keeps the low bytes of a value too large for its field,
\* CPython's raises struct.error.
Builds == {"micropython", "cpython"}

Packed(measurement) == [measurement |-> measurement, raised |-> ""]

\* crank_telemetry_to_csc_measurement(telemetry) on a build
crank_telemetry_to_csc_measurement(telemetry, build) ==
    LET time_in_units == TimeInUnits(telemetry.last_physical_time_ms)
        wrapped_time == time_in_units % 65536
        flags == 2
    IN  IF telemetry.cumulative_revolutions[1] # 0 /\ build = "cpython"
        THEN [measurement |-> <<>>, raised |-> "struct.error"]
        ELSE Packed(pack_B(flags)
                      \o pack_H(telemetry.cumulative_revolutions[2])
                      \o pack_H(wrapped_time))

\* CrankTelemetry.to_csc_measurement()
to_csc_measurement(telemetry) ==
    LET flags == 2
    IN  Packed(pack_B(flags)
                 \o pack_I(telemetry.cumulative_revolutions)
                 \o pack_H(telemetry.last_event_time))

\* (x + 1) on a 48-bit number held as three 16-bit parts
Inc48(x) ==
    IF x[3] + 1 < 65536 THEN <<x[1], x[2], x[3] + 1>>
    ELSE IF x[2] + 1 < 65536 THEN <<x[1], x[2] + 1, 0>>
    ELSE <<(x[1] + 1) % 65536, 0, 0>>

\* values time.ticks_ms() returns: around a whole second, around the wrap of
\* the 16-bit time field (64 s) and late in the run
TickSamples == {0, 1, 999, 1000, 1001, 63999, 64000, 64001, 2097151}

\* numbers of revolutions counted before the run starts: none, one short of
\* 2^16 and one short of 2^32
CountedSoFar == {<<0, 0, 0>>, <<0, 0, 65535>>, <<0, 65535, 65535>>}

cscFrame ==
    <<timeVars, store, current_session, disk, bleVars, reqVars, saveVars,
      delivered, client, awVars, storageVars, tasks>>

\* the telemetry after n record_revolution calls, the last at tick t
InitCsc ==
    /\ InitDevice
    /\ sessions_dir = EmptyDir
    /\ loaded = NoCall
    /\ tasks = AllSleeping
    /\ \E n \in CountedSoFar, t \in TickSamples :
         /\ n = <<0, 0, 0>> => t = 0
         /\ csc = [NoCsc EXCEPT !.calls = n]
         /\ telemetry_state =
               TelemetryState(<<n[2], n[3]>>, TimeInUnits(t) % 65536, t)

\* one revolution: TelemetryManager.record_revolution() runs
csc_record_revolution(current_time_ms) ==
    /\ csc.steps < MaxRevs
    /\ telemetry_state' =
          TelemetryManager_record_revolution(telemetry_state, current_time_ms)
    /\ csc' = [csc EXCEPT !.calls = Inc48(@), !.steps = @ + 1,
                          !.encoder = "none", !.measurement = <<>>,
                          !.raised = ""]
    /\ lastOp' = "record_revolution"
    /\ UNCHANGED cscFrame

\* notify_csc_subscriptions encodes the telemetry (csc_service.py 101-103)
csc_encode(build) ==
    LET packed == crank_telemetry_to_csc_measurement(telemetry_state, build)
    IN  /\ csc' = [csc EXCEPT !.encoder = "crank_telemetry_to_csc_measurement",
                              !.measurement = packed.measurement,
                              !.raised = packed.raised]
        /\ lastOp' = "encode"
        /\ UNCHANGED <<cscFrame, telemetry_state>>

\* the telemetry encodes itself (models.py 28-43)
csc_to_csc_measurement ==
    LET packed == to_csc_measurement(telemetry_state)
    IN  /\ csc' = [csc EXCEPT !.encoder = "to_csc_measurement",
                              !.measurement = packed.measurement,
                              !.raised = packed.raised]
        /\ lastOp' = "to_csc_measurement"
        /\ UNCHANGED <<cscFrame, telemetry_state>>

NextCsc ==
    \/ \E current_time_ms \in TickSamples :
          csc_record_revolution(current_time_ms)
    \/ \E build \in Builds : csc_encode(build)
    \/ csc_to_csc_measurement

SpecCsc == InitCsc /\ [][NextCsc]_vars

(***************************************************************************)
(* Claims about the cadence measurement (SpecCsc).                         *)
(***************************************************************************)
\* the 16-bit number a measurement holds at bytes i and i + 1 (from 1)
Field16(measurement, i) == measurement[i] + 256 * measurement[i + 1]

Encoded == csc.encoder # "none" /\ csc.raised = ""

\* C23: revolution counter wraparound. For every n, after n telemetry
\* record_revolution calls from a fresh state the cumulative revolution
\* counter held and encoded in the cadence measurement equals n mod 65536.
\* (n counts the calls, the last of them made in this run.)
C23_CounterIsCallsMod65536 ==
    csc.steps >= 1 =>
        /\ telemetry_state.cumulative_revolutions = <<0, csc.calls[3]>>
        /\ Encoded => /\ Len(csc.measurement) = 5
                      /\ Field16(csc.measurement, 2) = csc.calls[3]

\* What holds of the counter: the telemetry holds n mod 2^32; the 5-byte
\* measurement holds n mod 65536 on the build that keeps the low bytes and
\* is not produced at all (struct.error) on the build that checks the
\* range, once the held counter has passed 65535; the 7-byte measurement
\* holds n mod 2^32.
C23_CounterIsCallsMod2To32 ==
    /\ telemetry_state.cumulative_revolutions = <<csc.calls[2], csc.calls[3]>>
    /\ csc.encoder = "crank_telemetry_to_csc_measurement" =>
          \/ /\ csc.raised = ""
             /\ Field16(csc.measurement, 2) = csc.calls[3]
          \/ /\ csc.raised = "struct.error"
             /\ csc.calls[2] # 0
    /\ csc.encoder = "to_csc_measurement" =>
          /\ csc.raised = ""
          /\ Field16(csc.measurement, 2) = csc.calls[3]
          /\ Field16(csc.measurement, 4) = csc.calls[2]

\* The case C23 fails in: 65536 calls were made, the last in this run, and
\* the telemetry holds 65536.
C23_HeldPast16Bits ==
    /\ csc.calls = <<0, 1, 0>>
    /\ csc.steps = 1
    /\ telemetry_state.cumulative_revolutions = <<1, 0>>


\* the last-event-time field: the last two bytes of a measurement
TimeField(measurement) == Field16(measurement, Len(measurement) - 1)

\* C24: event-time encoding. For every last-event tick value t in
\* milliseconds, the encoded last-event-time field equals
\* floor(t * 1024 / 1000) mod 65536.
C24_TimeFieldIsTicksInUnits ==
    LET t == telemetry_state.last_physical_time_ms
    IN  /\ telemetry_state.last_event_time = ((t * 1024) \div 1000) % 65536
        /\ Encoded =>
              TimeField(csc.measurement) = ((t * 1024) \div 1000) % 65536

\* C24 witness: a revolution of this run came at tick 64001, past the wrap
\* of the field, and each encoder reports 1 unit.
C24_Witness ==
    /\ csc.steps >= 1
    /\ telemetry_state.last_physical_time_ms = 64001
    /\ Encoded
    /\ TimeField(csc.measurement) = 1

\* bit 1 of a byte
Bit1(byte) == (byte \div 2) % 2

\* C25: cadence payload shape. For every telemetry state, the encoded
\* measurement is exactly 5 bytes: a flags byte with bit 1 set, a 2-byte
\* little-endian revolution count and a 2-byte little-endian last-event
\* time.
C25_MeasurementIsFiveBytes ==
    csc.encoder # "none" =>
        /\ csc.raised = ""
        /\ Len(csc.measurement) = 5
        /\ Bit1(csc.measurement[1]) = 1
        /\ <<0, Field16(csc.measurement, 2)>> =
              telemetry_state.cumulative_revolutions
        /\ Field16(csc.measurement, 4) = telemetry_state.last_event_time

\* What holds of the shape: crank_telemetry_to_csc_measurement returns 5
\* bytes (flags 0x02, the low 16 bits of the count, the time) or raises
\* struct.error for a count above 65535; to_csc_measurement returns 7
\* bytes (flags 0x02, the count on 4 bytes, the time).
C25_ShapeByEncoder ==
    /\ (csc.encoder = "crank_telemetry_to_csc_measurement" /\ csc.raised = "") =>
          /\ Len(csc.measurement) = 5
          /\ csc.measurement[1] = 2
          /\ Field16(csc.measurement, 2) =
                telemetry_state.cumulative_revolutions[2]
          /\ Field16(csc.measurement, 4) = telemetry_state.last_event_time
    /\ csc.raised # "" =>
          /\ csc.encoder = "crank_telemetry_to_csc_measurement"
          /\ telemetry_state.cumulative_revolutions[1] # 0
    /\ csc.encoder = "to_csc_measurement" =>
          /\ Len(csc.measurement) = 7
          /\ csc.measurement[1] = 2
          /\ <<Field16(csc.measurement, 4), Field16(csc.measurement, 2)>> =
                telemetry_state.cumulative_revolutions
          /\ Field16(csc.measurement, 6) = telemetry_state.last_event_time

\* The case C25 fails in: one revolution at tick 1000, and the telemetry
\* encodes itself on 7 bytes.
C25_SevenBytes ==
    /\ csc.calls = <<0, 0, 1>>
    /\ csc.encoder = "to_csc_measurement"
    /\ csc.measurement = <<2, 1, 0, 0, 0, 0, 4>>

(***************************************************************************)
(* A session that counts past the width of the telemetry counter           *)
(* (state.py).  A Python integer has no width: here the revolutions of the *)
(* session are held as three 16-bit parts <<top, high, low>>, so that the  *)
(* count can pass 2^32.                                                    *)
(***************************************************************************)
\* SessionManager.current_session = None
NoWideSession == [NoSession EXCEPT !.revolutions = <<0, 0, 0>>]

\* SessionManager.start_session(): the new session
wide_start_session(next_id) ==
    [id |-> next_id, start_time |-> now, end_time |-> now,
     revolutions |-> <<0, 0, 0>>, synced |-> FALSE]

\* Faulty variant of wide_record_revolution_session: the count of the
\* session is wrapped like the telemetry counter.
wide_record_revolution_session_wrapping(cur, next_id) ==
    LET s == IF cur.id = NoSession.id THEN wide_start_session(next_id)
             ELSE cur
        low32 == Inc32(<<s.revolutions[2], s.revolutions[3]>>)
    IN  [s EXCEPT !.revolutions = <<@[1], low32[1], low32[2]>>,
                  !.end_time = now]

\* SessionManager.record_revolution(): the session after the call
wide_record_revolution_session(cur, next_id) ==
    LET s == IF cur.id = NoSession.id THEN wide_start_session(next_id)
             ELSE cur
    IN  [s EXCEPT !.revolutions = Inc48(@), !.end_time = now]

wrapFrame ==
    <<timeVars, store, disk, bleVars, reqVars, saveVars, delivered, client,
      awVars, storageVars, tasks>>

\* The device after n revolutions, all of one session, the last at tick t.
InitWrap ==
    /\ now = 0
    /\ bootTime = 0
    /\ saveDue = SAVE_INTERVAL_S
    /\ disk = NoFile
    /\ store = load_sessions(NoFile)
    /\ persistState = NoAttempts
    /\ InitBle
    /\ InitHistory
    /\ InitOther
    /\ sessions_dir = EmptyDir
    /\ loaded = NoCall
    /\ tasks = AllSleeping
    /\ \E n \in CountedSoFar, t \in TickSamples :
         /\ n = <<0, 0, 0>> => t = 0
         /\ csc = [NoCsc EXCEPT !.calls = n]
         /\ telemetry_state =
               TelemetryState(<<n[2], n[3]>>, TimeInUnits(t) % 65536, t)
         /\ current_session =
               IF n = <<0, 0, 0>> THEN NoWideSession
               ELSE [wide_start_session(store.next_id)
                       EXCEPT !.revolutions = n]

\* The reed switch handler: the telemetry and the session manager each
\* record the revolution.
wide_reed_press(current_time_ms) ==
    /\ csc.steps < MaxRevs
    /\ telemetry_state' =
          TelemetryManager_record_revolution(telemetry_state, current_time_ms)
    /\ current_session' =
          wide_record_revolution_session(current_session, store.next_id)
    /\ csc' = [csc EXCEPT !.calls = Inc48(@), !.steps = @ + 1,
                          !.encoder = "none", !.measurement = <<>>,
                          !.raised = ""]
    /\ lastOp' = "revolution"
    /\ UNCHANGED wrapFrame

NextWrap ==
    \/ \E current_time_ms \in TickSamples : wide_reed_press(current_time_ms)
    \/ \E build \in Builds : csc_encode(build)
    \/ csc_to_csc_measurement

SpecWrap == InitWrap /\ [][NextWrap]_vars

(***************************************************************************)
(* Claims about a session that outgrows the telemetry counter (SpecWrap).  *)
(***************************************************************************)
\* a < b for two numbers in three 16-bit parts
Less48(a, b) ==
    \/ a[1] < b[1]
    \/ a[1] = b[1] /\ a[2] < b[2]
    \/ a[1] = b[1] /\ a[2] = b[2] /\ a[3] < b[3]

\* the revolutions of the session are the full number of revolutions
\* recorded, while the telemetry counter holds that number modulo 2^32
SessionCountsEveryRevolution ==
    /\ current_session.revolutions = csc.calls
    /\ telemetry_state.cumulative_revolutions = <<csc.calls[2], csc.calls[3]>>

\* a step leaves the active session in place and does not lower its count
SessionCountNotLowered ==
    current_session.id # NoSession.id
        => /\ current_session'.id = current_session.id
           /\ \/ current_session'.revolutions = current_session.revolutions
              \/ Less48(current_session.revolutions,
                        current_session'.revolutions)

\* C34: the revolutions of a session are not wrapped to the width of the
\* telemetry counter: they are the full number of revolutions recorded, also
\* when that number is 2^32 or more and the telemetry counter has started
\* again from zero, and the count of an active session never decreases.
C34_SessionRevolutionsNotWrapped ==
    /\ []SessionCountsEveryRevolution
    /\ [][SessionCountNotLowered]_vars

\* one session holds 2^32 revolutions or more and the telemetry counter has
\* started again from zero
C34_Witness ==
    /\ csc.steps >= 1
    /\ current_session.revolutions[1] = 1
    /\ telemetry_state.cumulative_revolutions[1] = 0
    /\ Less48(<<0, telemetry_state.cumulative_revolutions[1],
                 telemetry_state.cumulative_revolutions[2]>>,
              current_session.revolutions)

(***************************************************************************)
(* The sensor handler and the notifier as tasks of one event loop          *)
(* (main.py, state.py, csc_service.py), statement by statement.            *)
(***************************************************************************)
\* Faulty variant of MayRun: a task runs whenever it is ready, in the
\* middle of the other's statements too.
MayRun_preempting(task) == csc.running \in {"none", "handler", "reader"}

\* The handler is called by Pushbutton inside the event loop and the
\* notifier is a task of the same loop: one runs only while the other is
\* at an await or not called, and keeps the processor up to its next
\* await or its return.
MayRun(task) == csc.running \in {"none", task}

\* whoever held the processor has given it up
Released(task) == IF csc.running = task THEN "none" ELSE csc.running

\* record_revolution starts: time.ticks_ms() is read (state.py 24-33)
handler_starts(current_time_ms) ==
    /\ MayRun("handler")
    /\ csc.handler.pc = "waiting"
    /\ csc.steps < MaxRevs
    /\ csc' = [csc EXCEPT !.running = "handler", !.steps = @ + 1,
                          !.handler = [pc |-> "stamped",
                                       current_time_ms |-> current_time_ms]]
    /\ lastOp' = "handler_starts"
    /\ UNCHANGED <<cscFrame, telemetry_state>>

\* cumulative_revolutions = wrapped_revolutions (state.py 35)
handler_stores_revolutions ==
    /\ MayRun("handler")
    /\ csc.handler.pc = "stamped"
    /\ telemetry_state' =
          [telemetry_state EXCEPT !.cumulative_revolutions = Inc32(@)]
    /\ csc' = [csc EXCEPT !.handler.pc = "counted"]
    /\ lastOp' = "handler_stores_revolutions"
    /\ UNCHANGED cscFrame

\* last_event_time = wrapped_time (state.py 36)
handler_stores_event_time ==
    /\ MayRun("handler")
    /\ csc.handler.pc = "counted"
    /\ telemetry_state' =
          [telemetry_state EXCEPT
              !.last_event_time =
                  TimeInUnits(csc.handler.current_time_ms) % 65536]
    /\ csc' = [csc EXCEPT !.handler.pc = "timed"]
    /\ lastOp' = "handler_stores_event_time"
    /\ UNCHANGED cscFrame

\* last_physical_time_ms = current_time_ms, and the handler returns
\* (state.py 37)
handler_returns ==
    /\ MayRun("handler")
    /\ csc.handler.pc = "timed"
    /\ telemetry_state' =
          [telemetry_state EXCEPT
              !.last_physical_time_ms = csc.handler.current_time_ms]
    /\ csc' = [csc EXCEPT
                  !.running = Released("handler"),
                  !.handler.pc = "waiting",
                  !.calls = Inc48(@),
                  !.pairs = @ \cup {<<telemetry_state.cumulative_revolutions,
                                       csc.handler.current_time_ms>>}]
    /\ lastOp' = "handler_returns"
    /\ UNCHANGED cscFrame

\* await asyncio.sleep(...) of the notifier returns (csc_service.py 99)
reader_wakes ==
    /\ MayRun("reader")
    /\ csc.reader.pc = "sleeping"
    /\ csc' = [csc EXCEPT !.running = "reader", !.reader.pc = "awake"]
    /\ lastOp' = "reader_wakes"
    /\ UNCHANGED <<cscFrame, telemetry_state>>

\* the encoder reads last_physical_time_ms (csc_service.py 66-68)
reader_reads_time ==
    /\ MayRun("reader")
    /\ csc.reader.pc = "awake"
    /\ csc' = [csc EXCEPT
                  !.reader.pc = "timed",
                  !.reader.time_ms = telemetry_state.last_physical_time_ms]
    /\ lastOp' = "reader_reads_time"
    /\ UNCHANGED <<cscFrame, telemetry_state>>

\* the encoder reads cumulative_revolutions and packs (csc_service.py 74-79)
reader_reads_revolutions ==
    LET read == TelemetryState(telemetry_state.cumulative_revolutions, 0,
                               csc.reader.time_ms)
        packed == crank_telemetry_to_csc_measurement(read, "micropython")
    IN  /\ MayRun("reader")
        /\ csc.reader.pc = "timed"
        /\ csc' = [csc EXCEPT
                      !.reader.pc = "read",
                      !.reader.revolutions = read.cumulative_revolutions,
                      !.encoder = "crank_telemetry_to_csc_measurement",
                      !.measurement = packed.measurement,
                      !.raised = packed.raised]
        /\ lastOp' = "reader_reads_revolutions"
        /\ UNCHANGED <<cscFrame, telemetry_state>>

\* characteristic.write(...) and back to the sleep (csc_service.py 105-109)
reader_notifies ==
    /\ MayRun("reader")
    /\ csc.reader.pc = "read"
    /\ csc' = [csc EXCEPT !.running = Released("reader"),
                          !.reader.pc = "sleeping"]
    /\ lastOp' = "reader_notifies"
    /\ UNCHANGED <<cscFrame, telemetry_state>>

NextPair ==
    \/ \E current_time_ms \in TickSamples : handler_starts(current_time_ms)
    \/ handler_stores_revolutions
    \/ handler_stores_event_time
    \/ handler_returns
    \/ reader_wakes
    \/ reader_reads_time
    \/ reader_reads_revolutions
    \/ reader_notifies

SpecPair == Init /\ [][NextPair]_vars

WriteHandlers == {"_handle_session_data_writes", "_handle_mark_synced_writes"}

\* The statements of each loop body at which a call may raise. For the two
\* write handlers "request" is the parsing and answering of the request and
\* "error_response" the write of the error response after it.
RaisePoints(task) ==
    CASE task = "session_idle_timeout" ->
            {"has_active_session", "telemetry_state", "end_session"}
      [] task = "session_periodic_save" ->
            {"has_active_session", "save_current_session"}
      [] task \in WriteHandlers ->
            {"written", "request", "error_response"}
      [] task = "notify_csc_subscriptions" ->
            {"encode", "write"}

\* The except clause that catches an exception raised at a statement:
\* session_idle_timeout and session_periodic_save have no try statement;
\* the write handlers have one around the request and one around the whole
\* body; notify_csc_subscriptions has one around characteristic.write only.
CaughtBy(task, at) ==
    CASE task \in WriteHandlers ->
            IF at = "request" THEN "inner" ELSE "outer"
      [] task = "notify_csc_subscriptions" /\ at = "write" -> "inner"
      [] OTHER -> "nothing"

\* where the task is once the exception has been dealt with: an exception
\* nothing catches leaves the coroutine and ends the task; the outer clause
\* of a write handler logs and awaits asyncio.sleep(1); an inner clause
\* logs (and answers) and the loop goes on to its next await
AfterRaise(task, at) ==
    CASE CaughtBy(task, at) = "nothing" -> "terminated"
      [] CaughtBy(task, at) = "outer" -> "backoff"
      [] CaughtBy(task, at) = "inner" -> "awaiting"

tasksFrame ==
    <<devVars, bleVars, reqVars, saveVars, delivered, client, awVars,
      storageVars, csc>>

\* One iteration of a loop: its await returns and its body runs to the end.
task_iteration(task) ==
    /\ tasks[task].pc = "awaiting"
    /\ tasks' = [tasks EXCEPT ![task] = [pc |-> "awaiting", raised |-> "none"]]
    /\ lastOp' = "task_iteration"
    /\ UNCHANGED tasksFrame

\* One iteration of a loop in which the statement at raises an exception.
task_raises(task, at) ==
    /\ tasks[task].pc = "awaiting"
    /\ tasks' = [tasks EXCEPT
                    ![task] = [pc |-> AfterRaise(task, at), raised |-> at]]
    /\ lastOp' = "task_raises"
    /\ UNCHANGED tasksFrame

\* await asyncio.sleep(1) of an outer except clause returns.
task_backoff_over(task) ==
    /\ tasks[task].pc = "backoff"
    /\ tasks' = [tasks EXCEPT ![task].pc = "awaiting"]
    /\ lastOp' = "task_backoff_over"
    /\ UNCHANGED tasksFrame

NextTasks ==
    \E task \in Tasks :
        \/ task_iteration(task)
        \/ \E at \in RaisePoints(task) : task_raises(task, at)
        \/ task_backoff_over(task)

SpecTasks == Init /\ [][NextTasks]_vars

\* C26: background task resilience. An unexpected exception raised inside
\* any background loop (idle-timeout monitor, periodic-save monitor, sync
\* responder, cadence notifier) is caught inside that loop and the loop
\* keeps running; no such exception terminates the task.
C26_NoExceptionTerminatesATask ==
    \A task \in Tasks :
        tasks[task].raised # "none" =>
            tasks[task].pc \in {"awaiting", "backoff"}

\* What holds of the loops: a write handler of the sync service is never
\* terminated; the cadence notifier is terminated by an exception of the
\* encoding and by no other; the idle-timeout and periodic-save monitors
\* are terminated by every exception.
C26_OnlyTheWriteHandlersCatchAll ==
    /\ \A task \in WriteHandlers : tasks[task].pc # "terminated"
    /\ tasks["notify_csc_subscriptions"].pc = "terminated"
          <=> tasks["notify_csc_subscriptions"].raised = "encode"
    /\ \A task \in {"session_idle_timeout", "session_periodic_save"} :
          tasks[task].pc = "terminated" <=> tasks[task].raised # "none"

\* The case C26 fails in: end_session() raised in the idle-timeout monitor
\* and the task is over, while the write handler that took an exception at
\* the same time is in its backoff.
C26_IdleMonitorTerminated ==
    /\ tasks["session_idle_timeout"] =
          [pc |-> "terminated", raised |-> "end_session"]
    /\ tasks["_handle_session_data_writes"] =
          [pc |-> "backoff", raised |-> "written"]

(***************************************************************************)
(* Claims about the responses of the sync service (SpecService).           *)
(***************************************************************************)
\* seconds from 1970-01-01 to 2000-01-01, the origin of time.time() on the
\* device
MICROPYTHON_EPOCH_OFFSET == 946684800

micropython_to_unix_timestamp(mp_timestamp) ==
    mp_timestamp + MICROPYTHON_EPOCH_OFFSET

\* the stored session a Session Data response was made from
StoredSessionOfResponse ==
    store.sessions[FindSession(store, session_data_char.id)]

\* C27: sync response timestamps are in the Unix epoch. For every session
\* returned by the sync handler, the start_time and end_time in the
\* response equal the internally stored values converted to the Unix epoch
\* (internal value + 946684800, the store holding time.time() of the
\* device, which counts from 2000-01-01).
C27_ResponseTimesInUnixEpoch ==
    session_data_char.kind = "session" =>
        /\ FindSession(store, session_data_char.id) # 0
        /\ session_data_char.session.start_time =
              micropython_to_unix_timestamp(StoredSessionOfResponse.start_time)
        /\ session_data_char.session.end_time =
              micropython_to_unix_timestamp(StoredSessionOfResponse.end_time)

\* What holds of the response: it carries the stored start_time and
\* end_time as they are, in the epoch of the device.
C27_ResponseTimesAsStored ==
    session_data_char.kind = "session" =>
        /\ FindSession(store, session_data_char.id) # 0
        /\ session_data_char.session.start_time =
              StoredSessionOfResponse.start_time
        /\ session_data_char.session.end_time =
              StoredSessionOfResponse.end_time

\* The case C27 fails in: session 0, stored with start_time 1000, is
\* returned with start_time 1000.
C27_ResponseInDeviceEpoch ==
    /\ session_data_char.kind = "session"
    /\ session_data_char.id = 0
    /\ StoredSessionOfResponse.start_time = 1000
    /\ session_data_char.session.start_time = 1000

\* The device holds 0..MaxStored ended sessions, all saved, none synced
\* yet, and serves Mark Synced requests for any id in any order.
InitRange ==
    /\ \E n \in 0..MaxStored :
         /\ store = EndedStore(n)
         /\ disk = SessionStore_to_dict(EndedStore(n))
         /\ persistState = AfterBoot(SessionStore_to_dict(EndedStore(n)))
    /\ now = 1000 * (MaxStored + 1)
    /\ bootTime = 0
    /\ saveDue = 1000 * (MaxStored + 1) + SAVE_INTERVAL_S
    /\ current_session = NoSession
    /\ telemetry_state = TelemetryState(<<0, 0>>, 0, 0)
    /\ InitBle
    /\ InitHistory
    /\ InitOther
    /\ InitNoCalls

NextRange ==
    \/ \E request_data \in Requests, raises \in BOOLEAN, ok \in BOOLEAN :
         handle_mark_synced_write(request_data, raises, ok) /\ UNCHANGED client
    \/ mark_synced_handler_resume

SpecRange == InitRange /\ [][NextRange]_vars

\* C28: session range response. For every store, the range response's
\* 'count' equals the number of stored sessions with synced = False and
\* 'start' is the id of the first unsynced session ({start: 0, count: 0}
\* when there are none); this holds after any sequence of mark-synced
\* requests, including marking sessions out of id order.
C28_RangeCountsUnsynced ==
    LET unsynced == get_unsynced_sessions(store)
        response == create_session_range_response(store)
    IN  /\ response.count = Len(unsynced)
        /\ response.start = IF Len(unsynced) = 0 THEN 0 ELSE unsynced[1].id

\* What holds of the range response: 'start' is the id of the first
\* unsynced session and 'count' the length of the span of ids from the
\* first to the last unsynced session, which is the number of unsynced
\* sessions exactly when no synced session lies between two unsynced ones;
\* {start: 0, count: 0} when there are none.
C28_RangeSpansUnsynced ==
    LET unsynced == get_unsynced_sessions(store)
        response == create_session_range_response(store)
        ids == {unsynced[i].id : i \in 1..Len(unsynced)}
    IN  /\ Len(unsynced) = 0 => response = [start |-> 0, count |-> 0]
        /\ Len(unsynced) > 0 =>
              /\ response.start = unsynced[1].id
              /\ response.start \in ids
              /\ response.start + response.count - 1 \in ids
              /\ ids \subseteq
                    response.start..(response.start + response.count - 1)
              /\ response.count >= Len(unsynced)
              /\ response.count = Len(unsynced) <=>
                    ids = response.start..(response.start + response.count - 1)

\* The case C28 fails in: sessions 0, 1 and 2 are stored, a Mark Synced
\* request for session 1 was served, and the range is {start: 0, count: 3}
\* with two sessions unsynced.
C28_SyncedSessionInsideTheRange ==
    /\ Len(store.sessions) = 3
    /\ Len(get_unsynced_sessions(store)) = 2
    /\ store.sessions[2].synced
    /\ mark_synced_char.kind = "success"
    /\ create_session_range_response(store) = [start |-> 0, count |-> 3]

(***************************************************************************)
(* start_session() called directly (session_manager.py).                   *)
(***************************************************************************)
\* SessionManager.start_session(), with or without an active session: a
\* warning is logged when there is one, and the new session takes the slot.
start_session ==
    /\ store.next_id < MaxId
    /\ current_session' = start_session_session(store)
    /\ store' = start_session_store(store)
    /\ lastOp' = IF has_active_session THEN "start_session_superseding"
                  ELSE "start_session"
    /\ UNCHANGED <<timeVars, disk, telemetry_state, bleVars, reqVars, saveVars,
                   delivered, client, awVars, storageVars, csc, tasks>>

NextSupersede ==
    \/ Tick
    \/ on_reed_press
    \/ start_session
    \/ \E ok \in BOOLEAN : end_session(ok)

SpecSupersede == Init /\ [][NextSupersede]_vars

HoldsSession(sessions, session_id) ==
    \E i \in 1..Len(sessions) : sessions[i].id = session_id

\* C30: a superseded session is not lost. If a new session is started
\* (start_session) while another session is still active, the previous
\* session is terminated like an ended one: it is appended to durable
\* storage before the active slot is taken by the new session.
C30_SupersededSessionIsStored ==
    [][(lastOp' = "start_session_superseding") =>
          /\ HoldsSession(store'.sessions, current_session.id)
          /\ HoldsSession(disk'.sessions, current_session.id)]_vars

\* What holds of start_session: it appends nothing and writes nothing; the
\* session that was active is replaced by the new one, which has the next
\* id, no revolution and start_time = end_time = now.
C30_StartSessionOnlyTakesTheSlot ==
    [][(lastOp' \in {"start_session", "start_session_superseding"}) =>
          /\ store'.sessions = store.sessions
          /\ disk' = disk
          /\ current_session' = Session(store.next_id, now, now, 0, FALSE)
          /\ store'.next_id = store.next_id + 1]_vars

\* The case C30 fails in: session 0 had revolutions, session 1 has taken
\* the slot, and neither the store nor the file holds session 0.
C30_SupersededSessionLost ==
    /\ lastOp = "start_session_superseding"
    /\ current_session.id = 1
    /\ telemetry_state.cumulative_revolutions # <<0, 0>>
    /\ ~HoldsSession(store.sessions, 0)
    /\ ~HoldsSession(disk.sessions, 0)

(***************************************************************************)
(* Claims about the life of a session (Spec, SpecDevice).                  *)
(***************************************************************************)
\* every session the device holds: the active one, the ended ones in
\* memory and the ones of the file
EverySession ==
    (IF has_active_session THEN {current_session} ELSE {})
        \cup {store.sessions[i] : i \in 1..Len(store.sessions)}
        \cup {disk.sessions[i] : i \in 1..Len(disk.sessions)}

\* C31: for every session, active or stored, end_time >= start_time holds
\* in every reachable state, after any sequence of record_revolution,
\* save_current_session and end_session (the wall clock never goes
\* backwards).
C31_EndNotBeforeStart ==
    \A s \in EverySession : s.end_time >= s.start_time

\* C31 witness: a session that started after boot was saved while active
\* and then ended; it is in memory and in the file with a later end_time.
C31_Witness ==
    /\ lastOp = "end_session"
    /\ \E i \in 1..Len(store.sessions), j \in 1..Len(disk.sessions) :
          /\ store.sessions[i] = disk.sessions[j]
          /\ store.sessions[i].start_time > 0
          /\ store.sessions[i].end_time > store.sessions[i].start_time
          /\ persistState[store.sessions[i].id] \in {"saved", "retried"}

\* milliseconds since the last recorded revolution
ElapsedMs == ticks_diff(ticks_ms, telemetry_state.last_physical_time_ms)

\* a step of the idle monitor that ends the active session
IdleMonitorEnds ==
    /\ has_active_session
    /\ lastOp' = "end_session"
    /\ current_session' = NoSession

\* C32: idle-timeout safety. The idle monitor ends the active session only
\* when strictly more than the idle timeout has elapsed since the last
\* recorded revolution; a session whose last revolution is at most the
\* timeout old at the time of the check is left active and unmodified.
C32_EndsOnlyAfterMoreThanTimeout ==
    [][IdleMonitorEnds => ElapsedMs > IDLE_TIMEOUT_MS]_vars

\* What holds of the idle monitor: it ends the active session only when at
\* least the idle timeout has elapsed since the last recorded revolution,
\* the timeout itself included; the revolution is not the one of tick 0.
C32_EndsOnlyAtOrAfterTimeout ==
    [][IdleMonitorEnds =>
          /\ ElapsedMs >= IDLE_TIMEOUT_MS
          /\ telemetry_state.last_physical_time_ms # 0]_vars

\* The case C32 fails in: the session was ended by a check that came
\* exactly IDLE_TIMEOUT_MS after its last revolution.
C32_EndedAtTheTimeout ==
    /\ lastOp = "end_session"
    /\ ElapsedMs = IDLE_TIMEOUT_MS
    /\ ended_session.end_time =
          (telemetry_state.last_physical_time_ms + IDLE_TIMEOUT_MS) \div 1000
              + bootTime

\* C33: a periodic save does not end the session. After
\* save_current_session, whether it succeeds or fails, the same session is
\* still active with unchanged start_time and revolutions, and the
\* in-memory list of ended sessions (store.sessions) and next_id are
\* exactly as before the call; with no active session it returns True and
\* writes nothing.
C33_PeriodicSaveKeepsTheSession ==
    [][/\ lastOp' = "save_current_session" =>
             /\ has_active_session
             /\ current_session' # NoSession
             /\ current_session'.id = current_session.id
             /\ current_session'.start_time = current_session.start_time
             /\ current_session'.revolutions = current_session.revolutions
             /\ store' = store
             /\ save_current_session_result(current_session, saveResult')
                   = saveResult'
       /\ lastOp' = "save_skipped" =>
             /\ ~has_active_session
             /\ current_session' = NoSession
             /\ store' = store
             /\ disk' = disk
             /\ \A ok \in BOOLEAN :
                   save_current_session_result(current_session, ok)]_vars

\* C33 witness: the write of a periodic save has failed, the session with
\* its revolutions is still the active one and one session ended before
\* it is still the only ended one.
C33_Witness ==
    /\ lastOp = "save_current_session"
    /\ ~saveResult
    /\ has_active_session
    /\ current_session.id = 1
    /\ current_session.revolutions >= 1
    /\ Len(store.sessions) = 1
    /\ store.next_id = 2

(***************************************************************************)
(* Claims about session ids (Spec).                                        *)
(***************************************************************************)
\* no two entries of a sequence of sessions have the same id, and every id
\* is below next_id
IdsUniqueBelow(sessions, next_id) ==
    /\ \A i, j \in 1..Len(sessions) :
          sessions[i].id = sessions[j].id => i = j
    /\ \A i \in 1..Len(sessions) :
          sessions[i].id >= 0 /\ sessions[i].id < next_id

\* the sessions of memory: the ended ones and the active one
SessionsInMemory ==
    IF has_active_session THEN Append(store.sessions, current_session)
    ELSE store.sessions

\* a step in which start_session() hands out an id
HandsOutId == ~has_active_session /\ current_session' # NoSession

\* C35: in every reachable state no two sessions share an id and every id
\* is below next_id, in memory (the active session included) and in the
\* store file; and start_session never hands out an id that a session of
\* the file or of memory has, also after a restart that reloaded the file.
C35_UniqueSessionIds ==
    /\ [](/\ IdsUniqueBelow(SessionsInMemory, store.next_id)
          /\ IdsUniqueBelow(disk.sessions, disk.next_id))
    /\ [][HandsOutId
            => /\ ~HoldsSession(disk.sessions, current_session'.id)
               /\ ~HoldsSession(store.sessions, current_session'.id)]_vars

\* after a restart that reloaded the file, a session with a new id is
\* active, while the file and memory hold, once each, a session that was
\* saved periodically and then ended by the idle monitor
C35_Witness ==
    /\ bootTime > 0
    /\ has_active_session
    /\ current_session.id = 1
    /\ Len(disk.sessions) = 1
    /\ disk.sessions[1].id = 0
    /\ disk.sessions[1].end_time - disk.sessions[1].start_time
          >= IDLE_TIMEOUT_S
    /\ Len(store.sessions) = 1
    /\ store.sessions[1].id = 0

(***************************************************************************)
(* Claims about the durability of a saved session (SpecDevice).            *)
(***************************************************************************)
\* the file holds a record of the active session; only a periodic save that
\* succeeded can have written it
ActiveSessionOnDisk ==
    has_active_session /\ HoldsSession(disk.sessions, current_session.id)

\* the step keeps a record of every session of the file that has the id
\* session_id, with at least the revolutions the file had
KeptOnDisk(session_id) ==
    \A i \in 1..Len(disk.sessions) :
        disk.sessions[i].id = session_id
            => \E j \in 1..Len(disk'.sessions) :
                  /\ disk'.sessions[j].id = session_id
                  /\ disk'.sessions[j].revolutions
                        >= disk.sessions[i].revolutions

\* C36: once a periodic save of the active session has succeeded, the file
\* keeps a record of that session, with at least the saved revolutions,
\* after every later operation, a mark-synced request handled while the
\* session is still active included.
C36_SavedSessionStaysOnDisk ==
    [][ActiveSessionOnDisk => KeptOnDisk(current_session.id)]_vars

\* What holds: every operation other than a mark-synced request keeps the
\* record of the active session, and every operation keeps the records of
\* the ended sessions.
C36_SavedSessionStaysUnlessMarking ==
    [][/\ ActiveSessionOnDisk /\ lastOp' # "mark_synced"
            => KeptOnDisk(current_session.id)
       /\ \A i \in 1..Len(store.sessions) :
            KeptOnDisk(store.sessions[i].id)]_vars

\* a mark-synced request has just been answered with success while a
\* session, saved before, is active, and the file has no record of the
\* active session any more
C36_SavedSessionGoneFromFile ==
    /\ lastOp = "mark_synced"
    /\ mark_synced_char.kind = "success"
    /\ has_active_session
    /\ lastSaved.id = current_session.id
    /\ ~HoldsSession(disk.sessions, current_session.id)

(***************************************************************************)
(* Claims about the conservation of revolutions (SpecDevice).              *)
(***************************************************************************)
\* revolutions counted by the sessions of memory, ended or active
RevolutionsCounted ==
    SumRevolutions(store.sessions)
        + (IF has_active_session THEN current_session.revolutions ELSE 0)

\* C37: under any interleaving of revolutions with the idle-timeout
\* end_session, the periodic save and sync requests, every recorded
\* revolution is counted in exactly one session: the revolutions of the
\* ended sessions plus those of the active one equal the number of
\* record_revolution calls; and a revolution that arrives right after an
\* idle-timeout end starts a new session with revolutions = 1, the ended
\* sessions being left as they are.
C37_RevolutionsConserved ==
    /\ [](RevolutionsCounted = RevolutionsRecorded)
    /\ [][lastOp = "end_session" /\ lastOp' = "revolution"
            => /\ current_session'.revolutions = 1
               /\ current_session'.id = store.next_id
               /\ store'.sessions = store.sessions]_vars

\* a revolution has arrived at the instant the idle monitor ended a session
\* of several revolutions: it is the first of a second session
C37_Witness ==
    /\ lastOp = "revolution"
    /\ Len(store.sessions) = 1
    /\ store.sessions[1].revolutions >= 2
    /\ has_active_session
    /\ current_session.revolutions = 1
    /\ current_session.start_time = store.sessions[1].end_time
    /\ RevolutionsRecorded = store.sessions[1].revolutions + 1

(***************************************************************************)
(* The sync service with failing writes and power cycles (SpecPower): a    *)
(* device that holds ended sessions answers sync requests, the write of    *)
(* the store may fail, revolutions start a session, and the device may be  *)
(* restarted at any point.                                                 *)
(***************************************************************************)
NextPower ==
    \/ \E session_id \in 0..MaxId : fetch_session(session_id)
    \/ \E session_id \in 0..MaxId, ok \in BOOLEAN :
          mark_session(session_id, ok)
    \/ on_reed_press
    \/ Restart

SpecPower == InitService /\ [][NextPower]_vars

(***************************************************************************)
(* Claims about the synced flag (SpecPower).                               *)
(***************************************************************************)
\* the step leaves the synced flag set on every session of these that has it
FlagsKept(before, after) ==
    \A i \in 1..Len(before) :
        before[i].synced
            => \E j \in 1..Len(after) :
                  after[j].id = before[i].id /\ after[j].synced

\* a Session Data request for a session that is flagged synced is answered
\* with the 'already synced' error
SyncedSessionNotSentAgain ==
    (/\ lastOp' = "session_data"
     /\ Len(lastReq') = 2
     /\ \E i \in 1..Len(store.sessions) :
           /\ store.sessions[i].id = unpack_H(lastReq')
           /\ store.sessions[i].synced)
        => session_data_char'
              = ErrorResponse("already synced", unpack_H(lastReq'))

\* a Mark Synced request for an id no stored session has is answered with an
\* error and changes neither the store nor the file
UnknownIdChangesNothing ==
    (/\ lastOp' = "mark_synced"
     /\ Len(lastReq') = 2
     /\ ~HoldsSession(store.sessions, unpack_H(lastReq')))
        => /\ mark_synced_char'
                = ErrorResponse("not found", unpack_H(lastReq'))
           /\ UNCHANGED <<store, disk, current_session>>

\* C38: the synced flag is monotone. Once mark_session_synced has set the
\* flag of a stored session no later operation clears it, every later
\* Session Data request for that id is answered with the 'already synced'
\* error instead of the session, and a Mark Synced request for an unknown
\* id returns an error and changes nothing.
C38_SyncedFlagMonotone ==
    [][/\ FlagsKept(store.sessions, store'.sessions)
       /\ SyncedSessionNotSentAgain
       /\ UnknownIdChangesNothing]_vars

\* What holds: the flag of a stored session is cleared by no operation
\* other than a restart, a flag that reached the file is never cleared, and
\* the two responses are as claimed.
C38_SyncedFlagKeptUntilRestart ==
    [][/\ lastOp' # "boot" => FlagsKept(store.sessions, store'.sessions)
       /\ FlagsKept(disk.sessions, disk'.sessions)
       /\ SyncedSessionNotSentAgain
       /\ UnknownIdChangesNothing]_vars

\* The one stored session of the device is sent to a client after a
\* restart, although a Mark Synced request for it was answered with success
\* before: the write of the store that followed the flagging had failed (no
\* other operation of these runs writes the store).
C38_SentAgainAfterRestart ==
    /\ lastOp = "session_data"
    /\ session_data_char.kind = "session"
    /\ bootTime > 0
    /\ saveResult = FALSE
    /\ Len(store.sessions) = 1
    /\ session_data_char.id = store.sessions[1].id
    /\ ~store.sessions[1].synced

(***************************************************************************)
(* The notifier signalled by an event (main.py): serve_connection and the  *)
(* reed switch handler as tasks of one event loop. A task runs from one    *)
(* await to the next without a switch.                                     *)
(***************************************************************************)
\* characteristic.notify(connection, to_csc_measurement()) and the call of
\* asyncio.wait_for(event.wait(), 30) (main.py 175-187); the loop is left
\* when the connection is down (main.py 172)
notify_and_wait(serve) ==
    IF serve.connected
    THEN [serve EXCEPT !.pc = "waiting",
                       !.payload = to_csc_measurement(telemetry_state).measurement]
    ELSE [serve EXCEPT !.pc = "done"]

\* serve_connection starts: the first pass of the loop
serve_starts ==
    /\ csc.serve.pc = "start"
    /\ csc' = [csc EXCEPT !.serve = notify_and_wait(@)]
    /\ lastOp' = IF csc.serve.connected THEN "notify" ELSE "disconnected"
    /\ UNCHANGED <<cscFrame, telemetry_state>>

\* event.wait() returns because the event is set; wait_for hands the result
\* to serve_connection, which is resumed later
serve_event_wait_returns ==
    /\ csc.serve.pc = "waiting"
    /\ csc.serve.event
    /\ csc' = [csc EXCEPT !.serve.pc = "woken"]
    /\ lastOp' = "event_wait_returns"
    /\ UNCHANGED <<cscFrame, telemetry_state>>

\* serve_connection resumes after wait_for: event.clear() and the next pass
\* of the loop (main.py 188, 172-187)
serve_resumes_after_event ==
    /\ csc.serve.pc = "woken"
    /\ csc' = [csc EXCEPT !.serve = notify_and_wait([@ EXCEPT !.event = FALSE])]
    /\ lastOp' = IF csc.serve.connected THEN "notify" ELSE "disconnected"
    /\ UNCHANGED <<cscFrame, telemetry_state>>

\* wait_for raises TimeoutError after 30 s; the event is left as it is and
\* the next pass of the loop follows (main.py 189-190)
serve_resumes_after_timeout ==
    /\ csc.serve.pc = "waiting"
    /\ csc' = [csc EXCEPT !.serve = notify_and_wait(@)]
    /\ lastOp' = IF csc.serve.connected THEN "notify" ELSE "disconnected"
    /\ UNCHANGED <<cscFrame, telemetry_state>>

\* Faulty variant of serve_on_reed_press: the handler does not set the event.
serve_on_reed_press_without_set(current_time_ms) ==
    /\ csc.steps < MaxRevs
    /\ telemetry_state' =
          Telemetry_record_revolution(telemetry_state, current_time_ms)
    /\ csc' = [csc EXCEPT !.calls = Inc48(@), !.steps = @ + 1]
    /\ lastOp' = "revolution"
    /\ UNCHANGED cscFrame

\* on_reed_press (main.py 89-102): record_revolution, then event.set()
serve_on_reed_press(current_time_ms) ==
    /\ csc.steps < MaxRevs
    /\ telemetry_state' =
          Telemetry_record_revolution(telemetry_state, current_time_ms)
    /\ csc' = [csc EXCEPT !.calls = Inc48(@), !.steps = @ + 1,
                          !.serve.event = TRUE]
    /\ lastOp' = "revolution"
    /\ UNCHANGED cscFrame

\* the central disconnects
serve_disconnect ==
    /\ csc.serve.connected
    /\ csc.serve.pc # "start"
    /\ csc' = [csc EXCEPT !.serve.connected = FALSE]
    /\ lastOp' = "disconnect"
    /\ UNCHANGED <<cscFrame, telemetry_state>>

NextServe ==
    \/ serve_starts
    \/ serve_event_wait_returns
    \/ serve_resumes_after_event
    \/ serve_resumes_after_timeout
    \/ \E current_time_ms \in TickSamples : serve_on_reed_press(current_time_ms)
    \/ serve_disconnect

\* The event loop runs a task that is ready: the first pass, the return of
\* event.wait() once the event is set and the resumption that follows it.
\* Nothing is assumed about the timeout.
SpecServe ==
    /\ InitCsc
    /\ [][NextServe]_vars
    /\ WF_vars(serve_starts)
    /\ WF_vars(serve_event_wait_returns)
    /\ WF_vars(serve_resumes_after_event)

(***************************************************************************)
(* Claims about the notifier signalled by an event (SpecServe).            *)
(***************************************************************************)
\* the payload of the last notification is the telemetry as it is now
PayloadIsCurrent ==
    csc.serve.payload = to_csc_measurement(telemetry_state).measurement

\* C39: no lost notification. While a connection is being served, every
\* revolution recorded by the sensor handler is eventually followed by a
\* notification whose payload reflects that revolution or a later one, in
\* every interleaving of the handler with the steps of the server, and
\* without the help of the 30 s timeout.
C39_NoLostNotification ==
    (csc.steps >= 1 /\ ~PayloadIsCurrent)
        ~> (PayloadIsCurrent \/ ~csc.serve.connected)

\* two revolutions or more were recorded while the connection was served;
\* the server has sent a notification that carries the latest of them and
\* waits again, the event being cleared
C39_Witness ==
    /\ lastOp = "notify"
    /\ csc.steps >= 2
    /\ csc.serve.pc = "waiting"
    /\ ~csc.serve.event
    /\ csc.serve.connected
    /\ PayloadIsCurrent

(***************************************************************************)
(* The polling notifier (tasks.py): ble_serve_connection and the reed      *)
(* switch handler as tasks of one event loop. Time is counted in seconds   *)
(* since the last notification; one sleep of the loop takes                *)
(* CONNECTION_POLL_INTERVAL_S.                                             *)
(***************************************************************************)
IDLE_NOTIFICATION_INTERVAL_S == 30

CONNECTION_POLL_INTERVAL_S == 1

\* a > b for two 32-bit numbers held as <<high, low>>
Greater32(a, b) == a[1] > b[1] \/ (a[1] = b[1] /\ a[2] > b[2])

\* the notification type chosen after the sleep (tasks.py 137-143)
next_notification_type(current_revolution, last_seen_revolution, elapsed_s) ==
    IF Greater32(current_revolution, last_seen_revolution) THEN "REVOLUTION"
    ELSE IF elapsed_s >= IDLE_NOTIFICATION_INTERVAL_S THEN "IDLE"
    ELSE "NONE"

\* numbers of revolutions counted before the connection: those of
\* CountedSoFar and two short of 2^32
CountedBeforeConnection == CountedSoFar \cup {<<0, 65535, 65534>>}

\* The connection has been made and the start-up sleep is over:
\* last_seen_revolution and last_notification_ms have just been taken.
InitPoll ==
    /\ InitDevice
    /\ sessions_dir = EmptyDir
    /\ loaded = NoCall
    /\ tasks = AllSleeping
    /\ \E n \in CountedBeforeConnection, t \in TickSamples :
         /\ n = <<0, 0, 0>> => t = 0
         /\ telemetry_state =
               TelemetryState(<<n[2], n[3]>>, TimeInUnits(t) % 65536, t)
         /\ csc = [NoCsc EXCEPT
                     !.calls = n,
                     !.poll.last_seen_revolution = <<n[2], n[3]>>,
                     !.poll.current_revolution = <<n[2], n[3]>>]

\* One pass of the loop from its top to the sleep (tasks.py 122-135): the
\* counter and the elapsed time are read, and a notification is sent unless
\* the type is "NONE".
poll_pass ==
    /\ csc.poll.pc = "top"
    /\ csc' = [csc EXCEPT
                  !.poll.pc = "sleeping",
                  !.poll.current_revolution =
                      telemetry_state.cumulative_revolutions,
                  !.poll.elapsed_s = csc.poll.since_s,
                  !.poll.notified = csc.poll.notification_type,
                  !.poll.since_s =
                      IF csc.poll.notification_type # "NONE" THEN 0 ELSE @,
                  !.encoder =
                      IF csc.poll.notification_type # "NONE"
                      THEN "to_csc_measurement" ELSE @,
                  !.measurement =
                      IF csc.poll.notification_type # "NONE"
                      THEN to_csc_measurement(telemetry_state).measurement
                      ELSE @]
    /\ lastOp' = IF csc.poll.notification_type # "NONE" THEN "notify"
                 ELSE "poll"
    /\ UNCHANGED <<cscFrame, telemetry_state>>

\* The sleep returns (tasks.py 135-145): the type of the next notification
\* is chosen from the values read before the sleep, and the loop goes on
\* while the connection is up.
poll_sleep_returns ==
    LET type == next_notification_type(csc.poll.current_revolution,
                                       csc.poll.last_seen_revolution,
                                       csc.poll.elapsed_s)
    IN  /\ csc.poll.pc = "sleeping"
        /\ csc' = [csc EXCEPT
                      !.poll.pc = IF csc.poll.connected THEN "top" ELSE "done",
                      !.poll.since_s = @ + CONNECTION_POLL_INTERVAL_S,
                      !.poll.notification_type = type,
                      !.poll.last_seen_revolution =
                          IF type = "REVOLUTION"
                          THEN csc.poll.current_revolution ELSE @]
        /\ lastOp' = "sleep_returns"
        /\ UNCHANGED <<cscFrame, telemetry_state>>

\* The reed switch handler runs while the notifier sleeps.
poll_on_reed_press(current_time_ms) ==
    /\ csc.poll.pc # "top"
    /\ csc_record_revolution(current_time_ms)

\* the central disconnects
poll_disconnect ==
    /\ csc.poll.connected
    /\ csc.poll.pc = "sleeping"
    /\ csc' = [csc EXCEPT !.poll.connected = FALSE]
    /\ lastOp' = "disconnect"
    /\ UNCHANGED <<cscFrame, telemetry_state>>

NextPoll ==
    \/ poll_pass
    \/ poll_sleep_returns
    \/ \E current_time_ms \in TickSamples : poll_on_reed_press(current_time_ms)
    \/ poll_disconnect

\* The event loop runs the notifier when its sleep is over.
SpecPoll ==
    /\ InitPoll
    /\ [][NextPoll]_vars
    /\ WF_vars(poll_pass)
    /\ WF_vars(poll_sleep_returns)

(***************************************************************************)
(* Claims about the polling notifier (SpecPoll).                           *)
(***************************************************************************)
\* a REVOLUTION notification has just been sent
RevolutionNotified == lastOp = "notify" /\ csc.poll.notified = "REVOLUTION"

\* the connection is up and the notifier in its loop
Serving == csc.poll.connected /\ csc.poll.pc # "done"

\* C40: in ble_serve_connection, while the connection stays up, every
\* change of the cumulative revolution counter is eventually followed by a
\* REVOLUTION notification, also when the counter wraps around to a smaller
\* value; and with no revolutions a notification is still sent at least
\* once per idle notification interval.
C40_PollingNotifier ==
    /\ (lastOp = "record_revolution") ~> (RevolutionNotified \/ ~Serving)
    /\ [](Serving => csc.poll.since_s <= IDLE_NOTIFICATION_INTERVAL_S)

\* What holds: a counter read greater than the last one seen is eventually
\* followed by a REVOLUTION notification, and the time since the last
\* notification stays within the idle interval plus one poll interval.
C40_GreaterCounterIsNotified ==
    /\ (/\ csc.poll.pc = "sleeping"
        /\ Greater32(csc.poll.current_revolution,
                     csc.poll.last_seen_revolution))
          ~> (RevolutionNotified \/ ~Serving)
    /\ [](Serving => csc.poll.since_s
                        <= IDLE_NOTIFICATION_INTERVAL_S
                             + CONNECTION_POLL_INTERVAL_S)

\* the counter has wrapped to a value below the last one seen; the notifier
\* has read it and chosen to send nothing
C40_WrapNotNotified ==
    /\ Serving
    /\ csc.poll.pc = "top"
    /\ csc.poll.notification_type = "NONE"
    /\ csc.poll.current_revolution = telemetry_state.cumulative_revolutions
    /\ Greater32(csc.poll.last_seen_revolution, csc.poll.current_revolution)

\* no revolution since the connection, and more than the idle interval has
\* passed since the last notification
C40_IdleIntervalExceeded ==
    /\ Serving
    /\ csc.steps = 0
    /\ csc.poll.since_s > IDLE_NOTIFICATION_INTERVAL_S

(***************************************************************************)
(* Claims about the failures of atomic_write (SpecAW).                     *)
(***************************************************************************)
AwReturnedFalse == aw.pc = "returned" /\ ~aw.result

\* C22: atomic_write failure. When the write of the temporary file or the
\* rename fails, atomic_write returns False, the temporary file does not
\* exist after the call and the target file holds exactly what it held
\* before the call.
C22_FailureLeavesNoTempFile ==
    AwReturnedFalse =>
        /\ ~files[temp_file(filename)].exists
        /\ files[filename] = aw.old

\* C22 as amended: when the write of the temporary file or the rename
\* fails, atomic_write returns False and the target file holds exactly what
\* it held before the call; the temporary file does not exist after the
\* call unless uos.remove failed as well, in which case it is left behind.
C22_FailureLeavesTargetAndRemovesTemp ==
    AwReturnedFalse =>
        /\ files[filename] = aw.old
        /\ lastOp = "aw_cleanup" => ~files[temp_file(filename)].exists
        /\ lastOp \in {"aw_cleanup", "aw_cleanup_failed"}

\* C22 witness: the call returned False after a failure that came once the
\* temporary file held text, the target has its old content and the
\* temporary file is gone.
C22_Witness ==
    /\ AwReturnedFalse
    /\ lastOp = "aw_cleanup"
    /\ aw.old.exists
    /\ aw.old # FileOf(aw.text)
    /\ files[filename] = aw.old
    /\ ~files[temp_file(filename)].exists

====
